---------------------------- MODULE Spec2Model ----------------------------
(***************************************************************************)
(* A model of the buffer, undo, global and signal engine of GNU ed 1.18    *)
(* (ed-with-syntax-highlighting).  Line records are heap nodes 1..MaxNodes *)
(* (node 0 is buffer_head, the sentinel of the ring); the program state is *)
(* threaded through the operators as one record, each operator being the  *)
(* translation of the C function whose name it carries.                    *)
(***************************************************************************)
EXTENDS Integers, Sequences, FiniteSets, TLC

\* ------------------------------------------------------------- bounds
\* heap budget: line records malloc'ed in one behaviour (dup_line_node)
MaxNodes == 4
\* lines of the file named on the command line (buffer at start-up)
MaxInit == 2
\* lines typed after a/i/c, lines of a file read by r
MaxInput == 2
\* commands in the command list of a global command
MaxList == 2
\* SIGINT arrives at one of the first MaxTick+1 arrival points of a command
MaxTick == 5
\* SIGHUP arrives at one of the first MaxHupTick+1 arrival points of a command
MaxHupTick == 2
\* command lines other than u read from standard input in one session
MaxCmds == 2
\* u commands typed in a row
MaxUndos == 2
\* command lines other than u in one session under signals
MaxSigCmds == 3
\* command lines other than u in one session on files
MaxFileCmds == 3
\* command lines other than u in one session of e, q, k and edits
MaxQuitCmds == 3
\* bytes of the file named on the command line in a session on files
MaxBytes == 3
\* command lines other than u in one session of global commands
MaxGlobCmds == 2
\* commands in the command list of a global command of such a session
MaxGlobList == 3
MaxHupCmds == 2
MaxExitCmds == 3
MaxRedCmds == 2
MaxMutexCmds == 2
MaxLines == 3
MaxLineCmds == 2
MaxName == 3

\* ------------------------------------------------------------- constants
UADD == 0
UDEL == 1
UMOV == 2
VMOV == 3
QUIT == -1
ERR == -2
EMOD == -3
FATAL == -4
INT_MAX == 2147483647

Nodes == 0 .. MaxNodes
NoSig == 0 - 1
\* the null pointer
Null == 0 - 1
\* the marks of the model, in the order of the array mark[]
MarkSeq == << "a", "b" >>
Marks == {MarkSeq[i] : i \in 1 .. Len(MarkSeq)}

VARIABLES
  q_forw, q_back,        \* line_t.q_forw / q_back of every node (0: buffer_head)
  txt,                   \* text of a node (what pos/len select in the scratch file)
  nalloc,                \* nodes 1..nalloc have been malloc'ed
  freed,                 \* nodes passed to free()
  current_addr_, last_addr_, modified_,
  yank,                  \* the ring at yank_buffer_head, as the text and pos of its nodes
  ustack, u_idx, u_current_addr, u_last_addr, u_modified,
  lp, o_addr,            \* statics of search_line_node
  active_list, active_idx, active_idxm,
  mutex, sighup_pending, sigint_pending,
  markno,                 \* line marker count
  mark,                  \* main_loop.c: the line markers
  isbinary_,             \* buffer.c: the buffer contains ASCII NULs
  unterminated_line,     \* io.c: the last line read without its newline
  pos,                   \* line_t.pos of every node
  sfsize, fpos,          \* the scratch file: its size, its file position
  sfpos, seek_write,     \* buffer.c: cached position, seek before writing
  def_filename,          \* main_loop.c: default filename, a sequence of characters
  restricted_,           \* main.c: restricted mode ( -r )
  status,                \* main_loop: status of the previous command
  pc,                    \* "loop": reading a command; "exit"; "ub"
  exit_code,
  sigs,                  \* whether signals are delivered in this behaviour
  ncmd,                  \* command lines read so far
  session,               \* the kind of session: the commands it draws from
  opts,                  \* main(): loose, initial_error; is_regular_file( 0 )
  err_status,            \* main_loop: program exit status
  retval,                \* the value main_loop has returned ( Null: none )
  rx,                    \* regex.c: the statics, or the frame of line_replace
  hist                   \* history variables (observations for the properties)

vars == << q_forw, q_back, txt, nalloc, freed, current_addr_, last_addr_,
           modified_, yank, ustack, u_idx, u_current_addr, u_last_addr,
           u_modified, lp, o_addr, active_list, active_idx, active_idxm,
           mutex, sighup_pending, sigint_pending, markno, mark, isbinary_,
           unterminated_line, pos, sfsize, fpos, sfpos, seek_write,
           def_filename, restricted_,
           status, pc, exit_code, sigs, ncmd, session, opts, err_status,
           retval, rx, hist >>

Min(a, b) == IF a < b THEN a ELSE b
Max(a, b) == IF a > b THEN a ELSE b

\* ------------------------------------------------- the state as a record
\* ctl: "run" while the command executes; "jmp" after longjmp( jmp_state );
\* "exit" after exit(); "ub" after undefined behaviour; "cap" when the heap
\* budget of the model is exhausted (the action is then not taken).
\* ret: the value returned by the C function just translated.
\* int_at / hup_at: the arrival point at which SIGINT / SIGHUP arrives.
Locals ==
  [ ctl |-> "run", ret |-> TRUE, up |-> 0, np |-> 0, match_found |-> FALSE,
    addr_cnt |-> 0, addr |-> 0, st |-> 0, first_addr |-> 0, second_addr |-> 0,
    int_at |-> NoSig, hup_at |-> NoSig, hup_ok |-> TRUE,
    h_unguarded |-> {}, h_arr |-> -1, h_xfer |-> -1, h_inner |-> 0,
    h_where |-> "none", h_at |-> "none", h_k |-> 0, h_saved |-> FALSE,
    h_acur |-> 0 - 1, h_imm |-> FALSE,
    total_size |-> 0, newline_added |-> FALSE, h_out |-> << >>,
    h_udone |-> FALSE, h_after_u |-> 0,
    h_uview |-> [seq |-> << >>, last |-> 0],
    h_m |-> [first |-> 0, second |-> 0, dest |-> 0 - 1], errmsg |-> "",
    h_clobber |-> FALSE, h_seeked |-> FALSE, h_twice |-> FALSE,
    h_unref |-> {}, h_nexec |-> 0, h_before_u |-> 0,
    h_sel |-> << >>, h_iters |-> << >>, h_moved |-> {},
    h_ranmoved |-> FALSE, h_dead |-> FALSE, h_badskip |-> FALSE,
    h_stale |-> FALSE, h_hup |-> FALSE, h_hupzero |-> FALSE,
    fnp |-> << >>, h_opened |-> {}, h_spawned |-> FALSE,
    wfail |-> FALSE, h_werr |-> FALSE,
    h_ln |-> [first |-> 0, second |-> 0, dest |-> 0 - 1],
    wrap |-> FALSE, h_wraps |-> 0, h_huge |-> FALSE, h_val |-> 0 ]

\* the record of the static variables v and of the locals
Rec(v) ==
  [f \in DOMAIN v \cup DOMAIN Locals |-> IF f \in DOMAIN v THEN v[f] ELSE Locals[f]]

\* the state of the program at the moment a command is read
St ==
  Rec([ q_forw |-> q_forw, q_back |-> q_back, txt |-> txt, nalloc |-> nalloc,
        freed |-> freed, current_addr_ |-> current_addr_,
        last_addr_ |-> last_addr_, modified_ |-> modified_, yank |-> yank,
        ustack |-> ustack, u_idx |-> u_idx, u_current_addr |-> u_current_addr,
        u_last_addr |-> u_last_addr, u_modified |-> u_modified,
        lp |-> lp, o_addr |-> o_addr, active_list |-> active_list,
        active_idx |-> active_idx, active_idxm |-> active_idxm,
        mutex |-> mutex, sighup_pending |-> sighup_pending,
        sigint_pending |-> sigint_pending, markno |-> markno, mark |-> mark,
        isbinary_ |-> isbinary_, unterminated_line |-> unterminated_line,
        pos |-> pos, sfsize |-> sfsize, fpos |-> fpos, sfpos |-> sfpos,
        seek_write |-> seek_write, exit_code |-> exit_code,
        def_filename |-> def_filename, restricted_ |-> restricted_ ])

\* the state after init_buffers(): empty rings, undo disabled
Boot ==
  Rec([ q_forw |-> [n \in Nodes |-> 0], q_back |-> [n \in Nodes |-> 0],
        txt |-> [n \in Nodes |-> << >>], nalloc |-> 0, freed |-> {},
        current_addr_ |-> 0, last_addr_ |-> 0, modified_ |-> FALSE,
        yank |-> << >>, ustack |-> << >>, u_idx |-> 0, u_current_addr |-> -1,
        u_last_addr |-> -1, u_modified |-> FALSE, lp |-> 0, o_addr |-> 0,
        active_list |-> << >>, active_idx |-> 0, active_idxm |-> 0,
        mutex |-> 0, sighup_pending |-> FALSE, sigint_pending |-> FALSE,
        markno |-> 0, mark |-> [c \in Marks |-> Null], isbinary_ |-> FALSE,
        unterminated_line |-> Null, pos |-> [n \in Nodes |-> 0],
        sfsize |-> 0, fpos |-> 0, sfpos |-> 0, seek_write |-> FALSE,
        exit_code |-> 0, def_filename |-> << >>, restricted_ |-> FALSE ])

\* the file argument of the sessions that edit a file: main() reads it and
\* makes it the default filename
Arg == << "f" >>

Main == [Boot EXCEPT !.def_filename = Arg]

Running(s) == s.ctl = "run"

\* the value of F at e, e being evaluated once
Bind(e, F(_)) == CHOOSE y \in {F(v) : v \in {e}} : TRUE

\* --------------------------------------------------------- signal guard
RECURSIVE enable_interrupts(_), sighup_handler(_), search_line_node(_, _)

\* sigint_handler: pending while masked, else longjmp to main_loop
sigint_handler(s) ==
  IF s.mutex # 0 THEN [s EXCEPT !.sigint_pending = TRUE]
  ELSE [s EXCEPT !.sigint_pending = FALSE, !.ctl = "jmp",
                 !.h_xfer = s.mutex, !.h_where = s.h_at]

\* the SIGHUP whose countdown has reached zero arrives
ArriveHup(a) ==
  IF a.hup_at = 0
    THEN sighup_handler([a EXCEPT !.hup_at = NoSig, !.h_arr = a.mutex])
    ELSE IF a.hup_at > 0 THEN [a EXCEPT !.hup_at = @ - 1] ELSE a

\* the SIGINT whose countdown has reached zero arrives
ArriveInt(b) ==
  IF ~Running(b) THEN b
  ELSE IF b.int_at = 0
    THEN sigint_handler([b EXCEPT !.int_at = NoSig, !.h_arr = b.mutex])
    ELSE IF b.int_at > 0 THEN [b EXCEPT !.int_at = @ - 1] ELSE b

\* A point of the execution at which an asynchronous signal may arrive:
\* the countdown of each signal chosen for this command reaches zero here.
Arrive(s, where) ==
  IF ~Running(s) \/ (s.int_at = NoSig /\ s.hup_at = NoSig) THEN s
  ELSE Bind(ArriveHup([s EXCEPT !.h_at = where]), LAMBDA b :
       Bind(ArriveInt(b), LAMBDA c :
         IF ~Running(c) THEN [c EXCEPT !.h_imm = TRUE] ELSE c))

\* disable_interrupts: ++mutex.  A signal arriving anywhere in the section
\* just opened is only recorded, so one arrival point per outermost section.
disable_interrupts(s) ==
  IF ~Running(s) THEN s
  ELSE IF s.mutex = 0 THEN Arrive([s EXCEPT !.mutex = 1], "masked")
  ELSE [s EXCEPT !.mutex = @ + 1]

\* a faulty enable_interrupts: the pending signals are replayed at every
\* call, nested or not
enable_interrupts_inner(s) ==
  IF ~Running(s) THEN s
  ELSE IF s.sighup_pending
    THEN [s EXCEPT !.mutex = Max(@ - 1, 0), !.sighup_pending = FALSE,
                   !.ctl = "exit", !.h_xfer = Max(s.mutex - 1, 0)]
  ELSE IF s.sigint_pending
    THEN [s EXCEPT !.mutex = Max(@ - 1, 0), !.sigint_pending = FALSE,
                   !.ctl = "jmp", !.h_xfer = Max(s.mutex - 1, 0)]
  ELSE [s EXCEPT !.mutex = Max(@ - 1, 0)]

\* the replay of enable_interrupts once mutex is zero
Replay(t) ==
  IF t.sighup_pending
    THEN Bind(sighup_handler(t), LAMBDA u :
           IF Running(u) /\ u.sigint_pending THEN sigint_handler(u) ELSE u)
    ELSE IF t.sigint_pending THEN sigint_handler(t) ELSE t

\* enable_interrupts: if( --mutex <= 0 ) replay the pending signals
enable_interrupts(s) ==
  IF ~Running(s) THEN s
  ELSE IF s.mutex - 1 <= 0 THEN Replay([s EXCEPT !.mutex = 0])
  ELSE [s EXCEPT !.mutex = @ - 1,
                 !.h_inner = IF s.sighup_pending \/ s.sigint_pending
                               THEN @ + 1 ELSE @]

\* ------------------------------------------------------- ring primitives
\* the node met after walking k links f from n
RECURSIVE Walk(_, _, _)
Walk(f, n, k) == IF k <= 0 THEN n ELSE Walk(f, f[n], k - 1)

\* no link of that walk is read from a freed node
RECURSIVE WalkOK(_, _, _, _)
WalkOK(f, n, k, fr) ==
  IF k <= 0 THEN TRUE ELSE n \notin fr /\ WalkOK(f, f[n], k - 1, fr)

\* link_nodes: prev->q_forw = next; next->q_back = prev.
\* Writing through a pointer to a freed node is undefined behaviour.
link_nodes(s, prev, next) ==
  IF ~Running(s) THEN s
  ELSE IF prev \in s.freed \/ next \in s.freed THEN [s EXCEPT !.ctl = "ub"]
  ELSE [s EXCEPT !.q_forw = [@ EXCEPT ![prev] = next],
                 !.q_back = [@ EXCEPT ![next] = prev],
                 !.h_unguarded = IF s.mutex = 0 THEN @ \cup {"ring"} ELSE @]

\* insert_node: insert node n into the ring after prev
insert_node(s, n, prev) ==
  Bind(link_nodes(s, n, s.q_forw[prev]), LAMBDA a : link_nodes(a, prev, n))

\* the branch search_line_node takes from the cached ( o_addr, lp )
SearchWay(d, addr) ==
  IF d.o_addr < addr
    THEN IF d.o_addr + d.last_addr_ >= 2 * addr THEN "forward" ELSE "end"
    ELSE IF d.o_addr <= 2 * addr THEN "backward" ELSE "head"

\* the nodes of the ring in order, walking q_forw from buffer_head
RECURSIVE RingFrom(_, _, _)
RingFrom(f, n, fuel) ==
  IF f[n] = 0 \/ fuel = 0 THEN << >> ELSE << f[n] >> \o RingFrom(f, f[n], fuel - 1)

BufSeq(f) == RingFrom(f, 0, MaxNodes + 1)

\* the node that is addr steps forward from buffer_head
NodeAt(f, addr) == IF addr = 0 THEN 0 ELSE BufSeq(f)[addr]

\* a lookup of an address of the buffer that returns another node than the
\* one at that address
Astray(d, addr, node) ==
  /\ addr >= 0 /\ addr <= d.last_addr_
  /\ \/ addr > Len(BufSeq(d.q_forw))
     \/ node # NodeAt(d.q_forw, addr)

\* search_line_node: the node at address addr, found from the cached
\* ( o_addr, lp ) pair; the result is left in s.lp.
search_line_node(s, addr) ==
  Bind(disable_interrupts(s), LAMBDA d :
    IF ~Running(d) THEN d
    ELSE
      LET way == SearchWay(d, addr)
          f == IF way \in {"forward", "head"} THEN d.q_forw ELSE d.q_back
          from == IF way = "end" THEN d.q_back[0]
                  ELSE IF way = "head" THEN 0 ELSE d.lp
          k == IF way = "forward" THEN addr - d.o_addr
               ELSE IF way = "end" THEN d.last_addr_ - addr
               ELSE IF way = "backward" THEN d.o_addr - addr ELSE addr
          o == IF way = "end" THEN Min(d.last_addr_, addr) ELSE Max(addr, 0)
      IN  IF ~WalkOK(f, from, k, d.freed) THEN [d EXCEPT !.ctl = "ub"]
          ELSE enable_interrupts(
                 [d EXCEPT !.lp = Walk(f, from, k), !.o_addr = o,
                           !.h_stale = @ \/ Astray(d, addr, Walk(f, from, k))]))

\* sighup_handler: pending while masked; else save the buffer and exit
sighup_handler(s) ==
  IF s.mutex # 0 THEN [s EXCEPT !.sighup_pending = TRUE]
  ELSE IF s.last_addr_ <= 0 \/ ~s.modified_
    THEN [s EXCEPT !.sighup_pending = FALSE, !.ctl = "exit",
                   !.exit_code = 0, !.h_xfer = s.mutex, !.h_where = s.h_at,
                   !.h_hup = TRUE, !.h_hupzero = TRUE]
  ELSE \* write_file( "ed.hup", "w", 1, last_addr() ), then $HOME/ed.hup
    Bind(search_line_node([s EXCEPT !.sighup_pending = FALSE,
                                    !.h_hup = TRUE, !.h_hupzero = s.hup_ok],
                          1), LAMBDA w :
      IF ~Running(w) THEN w
      ELSE [w EXCEPT !.ctl = "exit",
                     !.exit_code = IF w.hup_ok THEN 0 ELSE 1,
                     !.h_xfer = w.mutex, !.h_where = w.h_at])

\* ------------------------------------------------------------ line nodes
\* dup_line_node: malloc a node carrying text t ( pos/len of the scratch
\* file ); the new node is left in s.np.  The model's heap holds MaxNodes.
dup_line_node(s, t) ==
  IF ~Running(s) THEN s
  ELSE IF s.nalloc >= MaxNodes THEN [s EXCEPT !.ctl = "cap"]
  ELSE [s EXCEPT !.nalloc = @ + 1, !.np = s.nalloc + 1,
                 !.txt = [@ EXCEPT ![s.nalloc + 1] = t]]

\* p->pos = pos, for the node just malloc'ed
SetPos(s, p) ==
  IF ~Running(s) THEN s ELSE [s EXCEPT !.pos = [@ EXCEPT ![s.np] = p]]

\* too_many_lines
too_many_lines(s) == ~(s.last_addr_ < INT_MAX - 1)

\* add_line_node: insert node n after the current line
add_line_node(s, n) ==
  Bind(search_line_node(s, s.current_addr_), LAMBDA a :
  Bind(insert_node(a, n, a.lp), LAMBDA b :
    IF ~Running(b) THEN b
    ELSE [b EXCEPT !.current_addr_ = @ + 1, !.last_addr_ = @ + 1]))

\* the scratch file holds a record of node n at [ pos, pos + len )
Holds(s, n, from, to) ==
  /\ n \in 1 .. s.nalloc /\ n \notin s.freed
  /\ from < s.pos[n] + Len(s.txt[n]) /\ s.pos[n] < to

\* a faulty write position: the stream is left where the last read ended
\* ( no fseek to the end of the file )
SeekNowhere(s) == s.fpos

\* the position of the scratch file after fseek( sfp, 0L, SEEK_END )
SeekEnd(s) == s.sfsize

\* the write of put_sbuf_line: after a read the stream is first moved to the
\* end of the file; len bytes are written at the position of the stream.
\* h_clobber records a write into the bytes of an existing record, h_seeked
\* a write made after a read had left the stream inside the file.
sbuf_write(s, len) ==
  LET at == IF s.seek_write THEN SeekEnd(s) ELSE s.fpos
      sf == IF s.seek_write THEN at ELSE s.sfpos
  IN  [s EXCEPT !.fpos = at + len, !.sfpos = sf, !.seek_write = FALSE,
                !.sfsize = Max(@, at + len),
                !.h_clobber = @ \/ \E n \in Nodes : Holds(s, n, at, at + len),
                !.h_seeked = @ \/ (s.seek_write /\ s.fpos < s.sfsize)]

\* put_sbuf_line: append the text to the scratch file and add its node
put_sbuf_line(s, t) ==
  IF ~Running(s) THEN s
  ELSE IF too_many_lines(s) THEN [s EXCEPT !.ret = FALSE]
  ELSE IF s.wfail                                \* fwrite( ... ) != len
    THEN [s EXCEPT !.sfpos = 0 - 1, !.seek_write = FALSE,
                   !.fpos = IF s.seek_write THEN SeekEnd(s) ELSE @,
                   !.errmsg = "Cannot write temp file", !.ret = FALSE,
                   !.h_werr = s.mutex > 0]
  ELSE Bind(sbuf_write(s, Len(t)), LAMBDA w :
       Bind(dup_line_node(w, t), LAMBDA a :
       Bind(add_line_node(SetPos(a, a.sfpos), a.np), LAMBDA b :
         IF Running(b) THEN [b EXCEPT !.sfpos = @ + Len(t), !.ret = TRUE]
         ELSE b)))

\* get_sbuf_line: read the text of a line node from the scratch file; the
\* stream is moved to the record unless it is already there
get_sbuf_line(s, node) ==
  IF ~Running(s) THEN s
  ELSE IF node = 0 THEN [s EXCEPT !.ret = FALSE]
  ELSE IF node \in s.freed THEN [s EXCEPT !.ctl = "ub"]
  ELSE LET at == IF s.sfpos # s.pos[node] THEN s.pos[node] ELSE s.fpos
           len == Len(s.txt[node])
       IN  IF at + len > s.sfsize               \* Cannot read temp file
             THEN [s EXCEPT !.seek_write = TRUE, !.sfpos = 0 - 1,
                            !.fpos = Max(at, s.sfsize), !.ret = FALSE]
           ELSE [s EXCEPT !.seek_write = TRUE, !.sfpos = s.pos[node] + len,
                          !.fpos = at + len, !.ret = TRUE]

\* ------------------------------------------------------------ undo stack
\* a faulty atom: every atom is pushed as a UADD atom
AtomAdded(type, head, tail) == [type |-> UADD, head |-> head, tail |-> tail]

\* undo_t: the type of the atom and the first and last node of its range
Atom(type, head, tail) == [type |-> type, head |-> head, tail |-> tail]

\* a faulty atom type switch: the type is left as it is ( no type ^= 1 )
FlipNothing(type) == type

\* the type of an atom with its lowest bit flipped ( type ^= 1 )
Flip(type) ==
  IF type = UADD THEN UDEL ELSE IF type = UDEL THEN UADD
  ELSE IF type = UMOV THEN VMOV ELSE UMOV

\* push_undo_atom: the new atom's index is left in s.up
push_undo_atom(s, type, from, to) ==
  Bind(disable_interrupts(s), LAMBDA d :
  Bind(search_line_node(d, to), LAMBDA a :
  Bind(search_line_node(a, from), LAMBDA b :
    IF ~Running(b) THEN b
    ELSE IF b.u_idx < 0 THEN [b EXCEPT !.ctl = "ub"]
    ELSE enable_interrupts(
           [b EXCEPT !.ustack = Append(SubSeq(@, 1, b.u_idx),
                                       Atom(type, b.lp, a.lp)),
                     !.u_idx = @ + 1, !.up = b.u_idx + 1, !.ret = TRUE,
                     !.h_unguarded = IF b.mutex = 0 THEN @ \cup {"undo"}
                                     ELSE @]))))

\* up->tail = node: the atom of the current command grows by a line
set_tail(s, node) ==
  IF ~Running(s) THEN s ELSE [s EXCEPT !.ustack[s.up].tail = node]

\* mark_line_node: set the mark c on a line node
mark_line_node(s, node, c) ==
  IF ~Running(s) THEN s
  ELSE IF c \notin Marks THEN [s EXCEPT !.ret = FALSE]  \* Invalid mark character
  ELSE [s EXCEPT !.markno = IF s.mark[c] = Null THEN @ + 1 ELSE @,
                 !.mark = [@ EXCEPT ![c] = node], !.ret = TRUE]

\* a faulty unmark_line_node: the marks are left as they are
unmark_nothing(s, node) == s

\* unmark_line_node: the marks that point to the node are cleared; the loop
\* runs while markno is not zero
RECURSIVE UnmarkLoop(_, _, _)
UnmarkLoop(s, node, i) ==
  IF s.markno = 0 \/ i > Len(MarkSeq) THEN s
  ELSE IF s.mark[MarkSeq[i]] = node
    THEN UnmarkLoop([s EXCEPT !.mark[MarkSeq[i]] = Null, !.markno = @ - 1],
                    node, i + 1)
  ELSE UnmarkLoop(s, node, i + 1)

unmark_line_node(s, node) == UnmarkLoop(s, node, 1)

\* unmark_unterminated_line
unmark_unterminated_line(s, node) ==
  IF s.unterminated_line = node THEN [s EXCEPT !.unterminated_line = Null]
  ELSE s

\* the references to a node held outside the ring and the undo stack
Refs(s, node) ==
  (IF \E c \in Marks : s.mark[c] = node THEN {"mark"} ELSE {})
    \cup (IF s.unterminated_line = node THEN {"unterminated"} ELSE {})

\* the inner loop of clear_undo_stack: free the nodes bp .. ep ( excluded );
\* h_twice records the free of a node already freed
RECURSIVE FreeRange(_, _, _, _)
FreeRange(s, bp, ep, fuel) ==
  IF ~Running(s) \/ bp = ep THEN s
  ELSE IF bp \in s.freed
    THEN [s EXCEPT !.ctl = "ub", !.h_twice = TRUE]
  ELSE IF bp = 0 \/ fuel = 0 THEN [s EXCEPT !.ctl = "ub"]
  ELSE FreeRange([unmark_unterminated_line(unmark_line_node(s, bp), bp)
                    EXCEPT !.freed = @ \cup {bp},
                           !.h_unref = @ \cup Refs(s, bp)],
                 s.q_forw[bp], ep, fuel - 1)

\* one iteration of the loop of clear_undo_stack: pop the atom at u_idx
ClearAtom(s) ==
  LET at == s.ustack[s.u_idx]
      a == [s EXCEPT !.u_idx = @ - 1, !.ustack = SubSeq(@, 1, s.u_idx - 1)]
  IN  IF at.type # UDEL THEN a
      ELSE IF at.tail \in s.freed THEN [s EXCEPT !.ctl = "ub"]
      ELSE FreeRange(a, at.head, s.q_forw[at.tail], MaxNodes + 1)

\* the loop of clear_undo_stack, as the commands call it: not inside a
\* critical section, so a signal may arrive between any two of its steps.
\* The loop test leaves u_idx = -1 until "u_idx = 0" is executed.
RECURSIVE ClearLoop(_)
ClearLoop(s) ==
  IF ~Running(s) THEN s
  ELSE IF s.u_idx = 0 THEN Arrive([s EXCEPT !.u_idx = -1], "clear")
  ELSE IF s.u_idx < 0 THEN [s EXCEPT !.ctl = "ub"]    \* reads ustack[-2]
  ELSE Bind(ClearAtom(s), LAMBDA b :
       Bind(Arrive(b, "clear"), LAMBDA c : ClearLoop(c)))

\* clear_undo_stack: empty the stack, free the deleted nodes, take the
\* snapshot of current_addr_, last_addr_ and modified_; h_acur observes the
\* current address the snapshot took
clear_undo_stack(s) ==
  IF ~Running(s) THEN s
  ELSE Bind(ClearLoop([s EXCEPT !.h_unguarded =
                         IF s.mutex = 0 THEN @ \cup {"undo"} ELSE @]),
            LAMBDA a :
         IF ~Running(a) THEN a
         ELSE [a EXCEPT !.u_idx = 0, !.ustack = << >>,
                        !.u_current_addr = a.current_addr_,
                        !.u_last_addr = a.last_addr_,
                        !.u_modified = a.modified_,
                        !.h_acur = a.current_addr_])

\* a faulty clear_active_list: the list is left as it is
clear_active_nothing(s) == s

\* clear_active_list
clear_active_list(s) ==
  Bind(disable_interrupts(s), LAMBDA d :
    IF ~Running(d) THEN d
    ELSE enable_interrupts([d EXCEPT !.active_list = << >>,
                                     !.active_idx = 0, !.active_idxm = 0]))

\* a faulty undo atom: an added range is unlinked as if it held one line
UndoAtomOneLine(s, n) ==
  LET at == s.ustack[n]
  IN  IF at.head \in s.freed \/ at.tail \in s.freed THEN [s EXCEPT !.ctl = "ub"]
      ELSE IF at.type = UADD
        THEN link_nodes(s, s.q_back[at.head], s.q_forw[at.head])
      ELSE IF at.type = UDEL
        THEN Bind(link_nodes(s, s.q_back[at.head], at.head), LAMBDA a :
               link_nodes(a, at.tail, a.q_forw[at.tail]))
      ELSE IF n - 1 < 1 THEN [s EXCEPT !.ctl = "ub"]
      ELSE Bind(link_nodes(s, s.ustack[n - 1].head, s.q_forw[at.head]),
                LAMBDA a :
           Bind(link_nodes(a, a.q_back[at.tail], s.ustack[n - 1].tail),
                LAMBDA c : link_nodes(c, at.head, at.tail)))

\* one atom of undo(): the links it rewrites
UndoAtom(s, n) ==
  LET at == s.ustack[n]
  IN  IF at.head \in s.freed \/ at.tail \in s.freed THEN [s EXCEPT !.ctl = "ub"]
      ELSE IF at.type = UADD
        THEN link_nodes(s, s.q_back[at.head], s.q_forw[at.tail])
      ELSE IF at.type = UDEL
        THEN Bind(link_nodes(s, s.q_back[at.head], at.head), LAMBDA a :
               link_nodes(a, at.tail, a.q_forw[at.tail]))
      ELSE IF n - 1 < 1 THEN [s EXCEPT !.ctl = "ub"]       \* ustack[-1]
      ELSE Bind(link_nodes(s, s.ustack[n - 1].head, s.q_forw[at.head]),
                LAMBDA a :
           Bind(link_nodes(a, a.q_back[at.tail], s.ustack[n - 1].tail),
                LAMBDA c : link_nodes(c, at.head, at.tail)))

\* the loop of undo(): atoms n, n-1, .. 1 ( a move takes two )
RECURSIVE UndoLoop(_, _)
UndoLoop(s, n) ==
  IF ~Running(s) \/ n < 1 THEN s
  ELSE
    LET m == IF s.ustack[n].type \in {UMOV, VMOV} THEN n - 1 ELSE n
    IN  Bind(UndoAtom(s, n), LAMBDA a :
          IF ~Running(a) THEN a
          ELSE UndoLoop([a EXCEPT !.ustack[m].type = Flip(@)], m - 1))

Reverse(q) == [i \in 1 .. Len(q) |-> q[Len(q) + 1 - i]]

\* undo: undo the last change to the editor buffer
undo(s, isglobal) ==
  IF ~Running(s) THEN s
  ELSE IF s.u_idx <= 0 \/ s.u_current_addr < 0 \/ s.u_last_addr < 0
    THEN [s EXCEPT !.ret = FALSE]                     \* Nothing to undo
  ELSE
    Bind(search_line_node(s, 0), LAMBDA a :           \* reset cached value
    Bind(disable_interrupts(a), LAMBDA d :
    Bind(UndoLoop(d, d.u_idx), LAMBDA l :
    Bind(IF isglobal /\ Running(l)
           THEN clear_active_list([l EXCEPT !.ustack = Reverse(@)])
           ELSE IF Running(l) THEN [l EXCEPT !.ustack = Reverse(@)] ELSE l,
         LAMBDA g :
      IF ~Running(g) THEN g
      ELSE enable_interrupts(
             [g EXCEPT !.current_addr_ = g.u_current_addr,
                       !.u_current_addr = s.current_addr_,
                       !.last_addr_ = g.u_last_addr,
                       !.u_last_addr = s.last_addr_,
                       !.modified_ = g.u_modified,
                       !.u_modified = s.modified_,
                       !.ret = TRUE])))))

\* ------------------------------------------------------- global-active list

\* records that structure `what' is written outside every critical section
Touch(s, what) ==
  IF s.mutex = 0 THEN [s EXCEPT !.h_unguarded = @ \cup {what}] ELSE s

\* set_active_node: the buffer is allocated inside a critical section, the
\* node is stored outside it
set_active_node(s, n) ==
  Bind(IF Len(s.active_list) = 0
         THEN enable_interrupts(disable_interrupts(s)) ELSE s, LAMBDA a :
    IF ~Running(a) THEN a
    ELSE [a EXCEPT !.active_list = Append(@, n), !.ret = TRUE,
                   !.h_unguarded = IF a.mutex = 0 THEN @ \cup {"active"}
                                   ELSE @])

\* a variant that passes over the entry after the one it returns
next_active_node_by_two(s) ==
  IF s.active_idx >= Len(s.active_list) THEN [s EXCEPT !.np = Null]
  ELSE [s EXCEPT !.np = s.active_list[s.active_idx + 1], !.active_idx = @ + 2]

\* next_active_node: the node is left in s.np ( Null when exhausted )
RECURSIVE next_active_node(_)
next_active_node(s) ==
  IF s.active_idx >= Len(s.active_list) THEN [s EXCEPT !.np = Null]
  ELSE IF s.active_list[s.active_idx + 1] = Null
    THEN next_active_node([s EXCEPT !.active_idx = @ + 1])
  ELSE [s EXCEPT !.np = s.active_list[s.active_idx + 1], !.active_idx = @ + 1]

\* a variant that leaves the active list as it is
unset_no_nodes(s, bp, ep, fuel) == s

\* the inner loop of unset_active_nodes
RECURSIVE UnsetOne(_, _, _)
UnsetOne(s, bp, i) ==
  IF i >= Len(s.active_list) THEN s
  ELSE LET m == IF s.active_idxm + 1 >= Len(s.active_list)
                  THEN 0 ELSE s.active_idxm + 1
       IN  IF s.active_list[m + 1] = bp
             THEN [s EXCEPT !.active_idxm = m, !.active_list[m + 1] = Null]
             ELSE UnsetOne([s EXCEPT !.active_idxm = m], bp, i + 1)

\* unset_active_nodes: remove the nodes bp .. ep ( excluded ) from the list
RECURSIVE unset_active_nodes(_, _, _, _)
unset_active_nodes(s, bp, ep, fuel) ==
  IF ~Running(s) \/ bp = ep THEN s
  ELSE IF bp \in s.freed \/ fuel = 0 THEN [s EXCEPT !.ctl = "ub"]
  ELSE Bind(UnsetOne(Touch(s, "active"), bp, 0), LAMBDA a :
         unset_active_nodes(a, s.q_forw[bp], ep, fuel - 1))

\* if( isglobal ) unset_active_nodes( bp, ep );
Unset(s, isglobal, bp, ep) ==
  IF isglobal THEN unset_active_nodes(s, bp, ep, MaxNodes + 1) ELSE s

\* ------------------------------------------------------------ yank buffer
clear_yank_buffer(s) ==
  Bind(disable_interrupts(s), LAMBDA d :
    IF ~Running(d) THEN d ELSE enable_interrupts([d EXCEPT !.yank = << >>]))

inc_addr(s, addr) == IF addr + 1 > s.last_addr_ THEN 0 ELSE addr + 1

RECURSIVE YankLoop(_, _, _, _)
YankLoop(s, bp, ep, fuel) ==
  IF ~Running(s) \/ bp = ep THEN s
  ELSE IF bp \in s.freed \/ fuel = 0 THEN [s EXCEPT !.ctl = "ub"]
  ELSE Bind(disable_interrupts(s), LAMBDA d :
         IF ~Running(d) THEN d
         ELSE Bind(enable_interrupts([d EXCEPT !.yank =
                                      Append(@, [txt |-> d.txt[bp],
                                                 pos |-> d.pos[bp]])]),
                   LAMBDA e : YankLoop(e, s.q_forw[bp], ep, fuel - 1)))

\* yank_lines: copy a range of lines to the cut buffer
yank_lines(s, from, to) ==
  Bind(search_line_node(s, inc_addr(s, to)), LAMBDA a :
  Bind(search_line_node(a, from), LAMBDA b :
  Bind(clear_yank_buffer(b), LAMBDA c :
  Bind(YankLoop(c, b.lp, a.lp, MaxNodes + 1), LAMBDA y :
    IF Running(y) THEN [y EXCEPT !.ret = TRUE] ELSE y))))

\* ------------------------------------------------------- buffer operations
\* a faulty delete_lines: current_addr_ = from, without min( from, last )
delete_lines_from(s, from, to, isglobal) ==
  Bind(yank_lines(s, from, to), LAMBDA y :
  Bind(disable_interrupts(y), LAMBDA d :
  Bind(push_undo_atom(d, UDEL, from, to), LAMBDA u :
  Bind(search_line_node(u, inc_addr(u, to)), LAMBDA n :
  Bind(search_line_node(n, from - 1), LAMBDA p :
  Bind(Unset(p, isglobal, p.q_forw[p.lp], n.lp), LAMBDA g :
  Bind(link_nodes(g, p.lp, n.lp), LAMBDA l :
    IF ~Running(l) THEN l
    ELSE enable_interrupts(
           [l EXCEPT !.last_addr_ = @ - (to - from + 1),
                     !.current_addr_ = from,
                     !.modified_ = TRUE, !.ret = TRUE]))))))))

\* delete_lines: delete a range of lines
delete_lines(s, from, to, isglobal) ==
  Bind(yank_lines(s, from, to), LAMBDA y :
  Bind(disable_interrupts(y), LAMBDA d :
  Bind(push_undo_atom(d, UDEL, from, to), LAMBDA u :
  Bind(search_line_node(u, inc_addr(u, to)), LAMBDA n :
  Bind(search_line_node(n, from - 1), LAMBDA p :
  Bind(Unset(p, isglobal, p.q_forw[p.lp], n.lp), LAMBDA g :
  Bind(link_nodes(g, p.lp, n.lp), LAMBDA l :
    IF ~Running(l) THEN l
    ELSE enable_interrupts(
           [l EXCEPT !.last_addr_ = @ - (to - from + 1),
                     !.current_addr_ = Min(from, l.last_addr_ - (to - from + 1)),
                     !.modified_ = TRUE, !.ret = TRUE]))))))))

\* the atom of the command grows by the line just added ( up->tail = .. )
\* or, for its first line, is pushed
GrowAtom(p, tail) ==
  IF ~Running(p) THEN p
  ELSE IF p.up # 0 THEN set_tail(p, tail)
  ELSE push_undo_atom(p, UADD, p.current_addr_, p.current_addr_)

\* a faulty critical section: the error return leaves it open
AppendLineLeaky(r, t, insert) ==
  Bind(disable_interrupts(r), LAMBDA d :
  Bind(put_sbuf_line(IF insert /\ d.current_addr_ > 0
                       THEN [d EXCEPT !.current_addr_ = @ - 1] ELSE d, t),
       LAMBDA p :
    IF ~Running(p) \/ ~p.ret THEN p
    ELSE Bind(IF p.up # 0 THEN search_line_node(p, p.current_addr_) ELSE p,
              LAMBDA t2 :
         Bind(GrowAtom(t2, t2.lp), LAMBDA q :
           IF ~Running(q) THEN q
           ELSE enable_interrupts([q EXCEPT !.modified_ = TRUE,
                                            !.h_k = @ + 1, !.ret = TRUE])))))

\* one line of append_lines: its critical section
AppendLine(r, t, insert) ==
  Bind(disable_interrupts(r), LAMBDA d :
  Bind(put_sbuf_line(IF insert /\ d.current_addr_ > 0
                       THEN [d EXCEPT !.current_addr_ = @ - 1] ELSE d, t),
       LAMBDA p :
    IF ~Running(p) THEN p
    ELSE IF ~p.ret THEN enable_interrupts(p)
    ELSE Bind(IF p.up # 0 THEN search_line_node(p, p.current_addr_) ELSE p,
              LAMBDA t2 :
         Bind(GrowAtom(t2, t2.lp), LAMBDA q :
           IF ~Running(q) THEN q
           ELSE enable_interrupts([q EXCEPT !.modified_ = TRUE,
                                            !.h_k = @ + 1, !.ret = TRUE])))))

\* the loop of append_lines over the lines of the input; the line read
\* after the last one is the single period ( or end of file )
RECURSIVE AppendLoop(_, _, _, _, _)
AppendLoop(s, inp, i, insert, isglobal) ==
  Bind(IF isglobal THEN s ELSE Arrive(s, "read"), LAMBDA r :  \* get_stdin_line
    IF ~Running(r) THEN r
    ELSE IF i > Len(inp) THEN [r EXCEPT !.ret = TRUE]
    ELSE Bind(AppendLine(r, inp[i], insert), LAMBDA q :
           IF ~Running(q) \/ ~q.ret THEN q
           ELSE AppendLoop(q, inp, i + 1, FALSE, isglobal)))

\* a faulty append_lines: i enters the lines after addr, as a does
append_lines_after(s, inp, addr, insert, isglobal) ==
  IF ~Running(s) THEN s
  ELSE AppendLoop([s EXCEPT !.current_addr_ = addr, !.up = 0, !.h_k = 0],
                  inp, 1, FALSE, isglobal)

\* append_lines: insert the text typed ( or of the command list ) after addr
append_lines(s, inp, addr, insert, isglobal) ==
  IF ~Running(s) THEN s
  ELSE AppendLoop([s EXCEPT !.current_addr_ = addr, !.up = 0, !.h_k = 0],
                  inp, 1, insert, isglobal)

\* one line added by copy_lines / put_lines: a copy of a node with text t
AddCopy(s, t, p) ==
  Bind(disable_interrupts(s), LAMBDA d :
  Bind(dup_line_node(d, t), LAMBDA n :
  Bind(add_line_node(SetPos(n, p), n.np), LAMBDA a :
  Bind(GrowAtom(a, n.np), LAMBDA q :
    IF ~Running(q) THEN q
    ELSE enable_interrupts([q EXCEPT !.modified_ = TRUE, !.ret = TRUE])))))

\* the inner loop of copy_lines: n lines starting at node np
RECURSIVE CopyInner(_, _, _)
CopyInner(s, np, n) ==
  IF ~Running(s) \/ n <= 0 THEN s
  ELSE IF too_many_lines(s) THEN [s EXCEPT !.ret = FALSE]
  ELSE IF np \in s.freed THEN [s EXCEPT !.ctl = "ub"]
  ELSE Bind(AddCopy(s, s.txt[np], s.pos[np]), LAMBDA a :
         IF ~Running(a) \/ ~a.ret THEN a
         ELSE CopyInner(a, a.q_forw[np], n - 1))

\* the second round of the outer loop of copy_lines ( m lines ), entered
\* and left through np = search_line_node( current_addr_ + 1 )
CopyRest(b, m) ==
  IF ~Running(b) \/ ~b.ret THEN b
  ELSE Bind(search_line_node(b, b.current_addr_ + 1), LAMBDA c :
       Bind(CopyInner(c, c.lp, m), LAMBDA e :
         IF m <= 0 \/ ~Running(e) \/ ~e.ret THEN e
         ELSE search_line_node(e, e.current_addr_ + 1)))

\* a faulty copy_lines: one pass, whatever the destination
copy_lines_one_pass(s, first_addr, second_addr, addr) ==
  Bind(search_line_node(s, first_addr), LAMBDA a :
    IF ~Running(a) \/ second_addr - first_addr + 1 <= 0 THEN a
    ELSE Bind(CopyInner([a EXCEPT !.current_addr_ = addr, !.up = 0,
                                  !.ret = TRUE], a.lp,
                        second_addr - first_addr + 1),
              LAMBDA b : CopyRest(b, 0)))

\* copy_lines: copy a range of lines after addr
copy_lines(s, first_addr, second_addr, addr) ==
  LET split == addr >= first_addr /\ addr < second_addr
      n == IF split THEN addr - first_addr + 1
           ELSE second_addr - first_addr + 1
      m == IF split THEN second_addr - addr ELSE 0
  IN  Bind(search_line_node(s, first_addr), LAMBDA a :
        IF ~Running(a) \/ n <= 0 THEN a
        ELSE Bind(CopyInner([a EXCEPT !.current_addr_ = addr, !.up = 0,
                                      !.ret = TRUE], a.lp, n),
                  LAMBDA b : CopyRest(b, m)))

\* the end of move_lines
MoveFin(g) ==
  IF ~Running(g) THEN g
  ELSE enable_interrupts([g EXCEPT !.modified_ = TRUE, !.ret = TRUE])

\* a faulty no-op move: the current address is left alone
MoveNopKeep(d, n, p, second_addr, isglobal) ==
  Bind(search_line_node(d, n), LAMBDA a2 :
  Bind(search_line_node(a2, p), LAMBDA b2 :
    IF ~Running(b2) THEN b2
    ELSE MoveFin(Unset(b2, isglobal, b2.q_forw[b2.lp], a2.lp))))

\* move_lines when the destination is where the lines already are
MoveNop(d, n, p, second_addr, isglobal) ==
  Bind(search_line_node(d, n), LAMBDA a2 :
  Bind(search_line_node(a2, p), LAMBDA b2 :
    IF ~Running(b2) THEN b2
    ELSE MoveFin(Unset([b2 EXCEPT !.current_addr_ = second_addr], isglobal,
                       b2.q_forw[b2.lp], a2.lp))))

\* the three link_nodes of move_lines
MoveLinks(y, b1, b2, a1, cur, isglobal) ==
  IF ~Running(y) THEN y
  ELSE IF b1 \in y.freed \/ b2 \in y.freed \/ a1 \in y.freed
    THEN [y EXCEPT !.ctl = "ub"]
  ELSE Bind(link_nodes(y, b2, y.q_forw[b1]), LAMBDA l1 :
       Bind(link_nodes(l1, l1.q_back[a1], y.q_forw[b2]), LAMBDA l2 :
       Bind(link_nodes(l2, b1, a1), LAMBDA l3 :
         IF ~Running(l3) THEN l3
         ELSE MoveFin(Unset([l3 EXCEPT !.current_addr_ = cur], isglobal,
                            l3.q_forw[b2], y.q_forw[b2])))))

\* move_lines when the lines do move: two UMOV atoms, then the relinking
MoveReal(d, n, p, first_addr, second_addr, addr, isglobal) ==
  Bind(push_undo_atom(d, UMOV, p, n), LAMBDA u1 :
  Bind(push_undo_atom(u1, UMOV, addr, inc_addr(u1, addr)), LAMBDA u2 :
  Bind(search_line_node(u2, n), LAMBDA a1 :
  Bind(search_line_node(a1, IF addr < first_addr THEN p ELSE addr), LAMBDA x :
  Bind(search_line_node(x, IF addr < first_addr THEN addr ELSE p), LAMBDA y :
    MoveLinks(y, IF addr < first_addr THEN x.lp ELSE y.lp,
              IF addr < first_addr THEN y.lp ELSE x.lp, a1.lp,
              addr + (IF addr < first_addr
                        THEN second_addr - first_addr + 1 ELSE 0),
              isglobal))))))

\* move_lines: move a range of lines after addr
move_lines(s, first_addr, second_addr, addr, isglobal) ==
  Bind(disable_interrupts(s), LAMBDA d :
    IF addr = first_addr - 1 \/ addr = second_addr
      THEN MoveNop(d, inc_addr(s, second_addr), first_addr - 1, second_addr,
                   isglobal)
      ELSE MoveReal(d, inc_addr(s, second_addr), first_addr - 1, first_addr,
                    second_addr, addr, isglobal))

\* the nodes bp .. ep ( excluded ) of the ring
RECURSIVE NodeRange(_, _, _, _)
NodeRange(f, bp, ep, fuel) ==
  IF bp = ep \/ fuel = 0 THEN << >>
  ELSE << bp >> \o NodeRange(f, f[bp], ep, fuel - 1)

\* the texts of a sequence of nodes, concatenated
RECURSIVE JoinText(_, _)
JoinText(t, ns) ==
  IF Len(ns) = 0 THEN << >> ELSE t[Head(ns)] \o JoinText(t, Tail(ns))

\* the end of join_lines: the joined line replaces the deleted ones
JoinPut(d, buf, from) ==
  IF ~Running(d) THEN d
  ELSE Bind(disable_interrupts([d EXCEPT !.current_addr_ = from - 1]), LAMBDA c :
       Bind(put_sbuf_line(c, buf), LAMBDA q :
       Bind(IF Running(q) /\ q.ret
              THEN push_undo_atom(q, UADD, q.current_addr_, q.current_addr_)
              ELSE q, LAMBDA u :
         IF ~Running(u) THEN u
         ELSE IF ~u.ret THEN enable_interrupts(u)
         ELSE enable_interrupts([u EXCEPT !.modified_ = TRUE, !.ret = TRUE]))))

\* the loop of join_lines reading the lines of the range
RECURSIVE GetLoop(_, _, _)
GetLoop(s, ns, i) ==
  IF ~Running(s) THEN s
  ELSE IF i > Len(ns) THEN [s EXCEPT !.ret = TRUE]
  ELSE Bind(get_sbuf_line(s, ns[i]), LAMBDA g :
         IF ~Running(g) \/ ~g.ret THEN g ELSE GetLoop(g, ns, i + 1))

\* join_lines: replace a range of lines with the joined text of those lines
join_lines(s, from, to, isglobal) ==
  Bind(search_line_node(s, inc_addr(s, to)), LAMBDA e :
  Bind(search_line_node(e, from), LAMBDA b :
  Bind(NodeRange(b.q_forw, b.lp, e.lp, MaxNodes + 1), LAMBDA ns :
  Bind(GetLoop(b, ns, 1), LAMBDA g :
    IF ~Running(g) \/ ~g.ret THEN g
    ELSE Bind(delete_lines(g, from, to, isglobal), LAMBDA d :
           JoinPut(d, JoinText(b.txt, ns), from))))))

\* the loop of put_lines over the nodes of the yank buffer
RECURSIVE PutLoop(_, _)
PutLoop(s, i) ==
  IF ~Running(s) \/ i > Len(s.yank) THEN s
  ELSE IF too_many_lines(s) THEN [s EXCEPT !.ret = FALSE]
  ELSE Bind(AddCopy(s, s.yank[i].txt, s.yank[i].pos), LAMBDA a :
         IF ~Running(a) \/ ~a.ret THEN a ELSE PutLoop(a, i + 1))

\* put_lines: append lines from the yank buffer
put_lines(s, addr) ==
  IF ~Running(s) THEN s
  ELSE IF Len(s.yank) = 0
    THEN [s EXCEPT !.ret = FALSE, !.errmsg = "Nothing to put"]
  ELSE PutLoop([s EXCEPT !.current_addr_ = addr, !.up = 0, !.ret = TRUE], 1)

\* ------------------------------------------------------------ substitution
\* regexec with a one-character pattern: the offset of the first match
\* in t at or after offset i, 0 if there is none
RECURSIVE regexec(_, _, _)
regexec(t, pat, i) ==
  IF i > Len(t) THEN 0 ELSE IF t[i] = pat THEN i ELSE regexec(t, pat, i + 1)

\* NUL is the byte 0 ( it terminates a C string )
NUL == "NUL"

\* the characters '1' .. '9' and their values
Digit == [c \in {"1", "2", "3", "4", "5", "6", "7", "8", "9"} |->
            CASE c = "1" -> 1 [] c = "2" -> 2 [] c = "3" -> 3 [] c = "4" -> 4
              [] c = "5" -> 5 [] c = "6" -> 6 [] c = "7" -> 7 [] c = "8" -> 8
              [] c = "9" -> 9]

\* a template expansion that copies the backslash of an escape that names
\* no subgroup
RECURSIVE replace_matched_text_keeping(_, _)
replace_matched_text_keeping(rbuf, rm) ==
  IF Len(rbuf) = 0 THEN << >>
  ELSE IF Head(rbuf) = "&"
    THEN rm[1] \o replace_matched_text_keeping(Tail(rbuf), rm)
  ELSE IF Head(rbuf) = "\\" /\ Len(rbuf) > 1
    THEN IF rbuf[2] \in DOMAIN Digit /\ Digit[rbuf[2]] <= Len(rm) - 1
           THEN rm[Digit[rbuf[2]] + 1]
                  \o replace_matched_text_keeping(Tail(Tail(rbuf)), rm)
         ELSE IF rbuf[2] = "\\"
           THEN << "\\" >> \o replace_matched_text_keeping(Tail(Tail(rbuf)), rm)
         ELSE << "\\", rbuf[2] >>
                \o replace_matched_text_keeping(Tail(Tail(rbuf)), rm)
  ELSE << Head(rbuf) >> \o replace_matched_text_keeping(Tail(rbuf), rm)

\* replace_matched_text: the expansion of the template rbuf for a match.
\* rm[1] is the matched text ( rm[0] ), rm[n + 1] the text of subgroup n,
\* and Len(rm) - 1 is re_nsub.  An & is the matched text; a backslash
\* advances to the next character ( ++i ), which is subgroup n if it is
\* the digit of a subgroup of the RE, and is copied as it is otherwise.
\* A backslash that ends the template advances to the terminating 0,
\* which is copied.
RECURSIVE replace_matched_text(_, _)
replace_matched_text(rbuf, rm) ==
  IF Len(rbuf) = 0 THEN << >>
  ELSE IF Head(rbuf) = "&" THEN rm[1] \o replace_matched_text(Tail(rbuf), rm)
  ELSE IF Head(rbuf) = "\\"
    THEN IF Len(rbuf) = 1 THEN << NUL >>
         ELSE IF rbuf[2] \in DOMAIN Digit /\ Digit[rbuf[2]] <= Len(rm) - 1
           THEN rm[Digit[rbuf[2]] + 1]
                  \o replace_matched_text(Tail(Tail(rbuf)), rm)
         ELSE << rbuf[2] >> \o replace_matched_text(Tail(Tail(rbuf)), rm)
  ELSE << Head(rbuf) >> \o replace_matched_text(Tail(rbuf), rm)

\* line_replace: the new text with one ( snum > 0: the snum-th ) or all
\* ( snum <= 0 ) matches replaced by the template; changed = FALSE if the
\* line is left as it is
RECURSIVE ReplaceFrom(_, _, _, _, _, _)
ReplaceFrom(t, pat, repl, snum, i, matchno) ==
  LET k == regexec(t, pat, i)
  IN  IF k = 0 THEN [changed |-> FALSE, new |-> SubSeq(t, i, Len(t))]
      ELSE IF snum <= 0
        THEN [changed |-> TRUE,
              new |-> SubSeq(t, i, k - 1) \o replace_matched_text(repl, << << t[k] >> >>)
                      \o ReplaceFrom(t, pat, repl, snum, k + 1, matchno + 1).new]
      ELSE IF snum = matchno + 1
        THEN [changed |-> TRUE,
              new |-> SubSeq(t, i, k - 1) \o replace_matched_text(repl, << << t[k] >> >>)
                      \o SubSeq(t, k + 1, Len(t))]
      ELSE [changed |-> ReplaceFrom(t, pat, repl, snum, k + 1, matchno + 1).changed,
            new |-> SubSeq(t, i, k)
                    \o ReplaceFrom(t, pat, repl, snum, k + 1, matchno + 1).new]

line_replace(t, pat, repl, snum) == ReplaceFrom(t, pat, repl, snum, 1, 0)

\* the lines of a text buffer: each stops at the first newline
RECURSIVE SplitLines(_, _)
SplitLines(t, acc) ==
  IF Len(t) = 0 THEN << >>
  ELSE IF Head(t) = "\n" THEN << acc >> \o SplitLines(Tail(t), << >>)
  ELSE SplitLines(Tail(t), Append(acc, Head(t)))

\* the do-while of search_and_replace that puts the lines of the new text
RECURSIVE SubPut(_, _, _)
SubPut(s, lines, i) ==
  IF ~Running(s) \/ i > Len(lines) THEN s
  ELSE Bind(put_sbuf_line(s, lines[i]), LAMBDA p :
         IF ~Running(p) \/ ~p.ret THEN p
         ELSE Bind(IF p.up # 0 THEN search_line_node(p, p.current_addr_) ELSE p,
                   LAMBDA t :
              Bind(GrowAtom(t, t.lp), LAMBDA q : SubPut(q, lines, i + 1))))

\* the body of the loop of search_and_replace for a line that changes
SubLine(a, addr, new, isglobal) ==
  Bind(disable_interrupts(a), LAMBDA d :
  Bind(delete_lines(d, addr, addr, isglobal), LAMBDA e :
  Bind(SubPut(IF Running(e)
                THEN [e EXCEPT !.current_addr_ = addr - 1, !.up = 0] ELSE e,
              SplitLines(new \o << "\n" >>, << >>), 1), LAMBDA g :
    IF ~Running(g) THEN g
    ELSE IF ~g.ret THEN enable_interrupts(g)
    ELSE enable_interrupts([g EXCEPT !.match_found = TRUE]))))

\* the loop of search_and_replace; s.match_found is its local variable
RECURSIVE SubLoop(_, _, _, _, _, _, _, _)
SubLoop(s, addr, lc, n, pat, repl, snum, isglobal) ==
  IF ~Running(s) \/ lc > n THEN s
  ELSE Bind(search_line_node(s, addr), LAMBDA a0 :
  Bind(get_sbuf_line(a0, a0.lp), LAMBDA a :
    IF ~Running(a) \/ ~a.ret THEN a
    ELSE Bind(line_replace(a.txt[a.lp], pat, repl, snum), LAMBDA r :
      IF ~r.changed
        THEN SubLoop(a, addr + 1, lc + 1, n, pat, repl, snum, isglobal)
        ELSE Bind(SubLine(a, addr, r.new, isglobal), LAMBDA h :
               IF ~Running(h) \/ ~h.ret THEN h
               ELSE SubLoop(h, h.current_addr_ + 1, lc + 1, n, pat, repl,
                            snum, isglobal)))))

\* search_and_replace
search_and_replace(s, first_addr, second_addr, pat, repl, snum, isglobal) ==
  Bind(SubLoop([s EXCEPT !.match_found = FALSE, !.ret = TRUE], first_addr,
               0, second_addr - first_addr, pat, repl, snum, isglobal),
       LAMBDA a :
    IF ~Running(a) \/ ~a.ret THEN a
    ELSE [a EXCEPT !.ret = a.match_found \/ isglobal])       \* else No match

\* ------------------------------------------------------------------- files
\* A file is a sequence of bytes.

\* the bytes of a text file holding the given lines
RECURSIVE Bytes(_)
Bytes(lines) ==
  IF Len(lines) = 0 THEN << >>
  ELSE Head(lines) \o << "\n" >> \o Bytes(Tail(lines))

\* the index of the first newline of b at or after i, Len( b ) + 1 if none
RECURSIVE NextNl(_, _)
NextNl(b, i) ==
  IF i > Len(b) THEN i ELSE IF b[i] = "\n" THEN i ELSE NextNl(b, i + 1)

\* memchr( buf, '\n', size ): the offset of the first newline among the
\* first size bytes of buf, -1 if there is none
memchr(buf, size) ==
  IF NextNl(buf, 1) <= Min(size, Len(buf)) THEN NextNl(buf, 1) - 1 ELSE 0 - 1

\* read_stream_line: the line of stream b that starts at byte i ( strip_cr
\* is off ).  A NUL sets the binary flag; at end of file a line without
\* newline gets one, counted in size unless the buffer is binary.
read_stream_line(b, i, binary) ==
  LET j == NextNl(b, i)
      raw == SubSeq(b, i, Min(j, Len(b)))
      bin == binary \/ \E k \in 1 .. Len(raw) : raw[k] = NUL
      added == j > Len(b) /\ Len(raw) > 0
  IN  [ buf |-> IF added THEN Append(raw, "\n") ELSE raw,
        size |-> IF added /\ ~bin THEN Len(raw) + 1 ELSE Len(raw),
        newline_added |-> added, binary |-> bin, next |-> i + Len(raw) ]

\* a faulty unterminated_last_line: no line is ever unterminated
unterminated_never(s) == IF ~Running(s) THEN s ELSE [s EXCEPT !.ret = FALSE]

\* unterminated_last_line: s.ret tells if unterminated_line is the last line
unterminated_last_line(s) ==
  IF ~Running(s) THEN s
  ELSE IF s.unterminated_line = Null THEN [s EXCEPT !.ret = FALSE]
  ELSE Bind(search_line_node(s, s.last_addr_), LAMBDA a :
         IF ~Running(a) THEN a
         ELSE [a EXCEPT !.ret = (a.unterminated_line = a.lp)])

\* one line of read_stream: put_sbuf_line( s, size + newline_added )
ReadPut(d, ln) ==
  IF ~Running(d) THEN d
  ELSE IF memchr(ln.buf, ln.size + (IF d.newline_added THEN 1 ELSE 0)) < 0
    THEN [d EXCEPT !.ret = FALSE]
  ELSE put_sbuf_line(d, SubSeq(ln.buf, 1,
         memchr(ln.buf, ln.size + (IF d.newline_added THEN 1 ELSE 0))))

\* the loop of read_stream over the lines of the stream b, from byte i
RECURSIVE ReadLoop(_, _, _, _)
ReadLoop(s, b, i, node) ==
  IF ~Running(s) THEN s
  ELSE Bind(read_stream_line(b, i, s.isbinary_), LAMBDA ln :
    IF ln.size <= 0 THEN [s EXCEPT !.isbinary_ = ln.binary, !.ret = TRUE]
    ELSE Bind(disable_interrupts(
                [s EXCEPT !.isbinary_ = ln.binary,
                          !.newline_added = @ \/ ln.newline_added,
                          !.total_size = @ + ln.size]), LAMBDA d :
         Bind(ReadPut(d, ln), LAMBDA p :
           IF ~Running(p) THEN p
           ELSE IF ~p.ret THEN enable_interrupts(p)
           ELSE IF node \in p.freed THEN [p EXCEPT !.ctl = "ub"]
           ELSE Bind(GrowAtom(p, p.q_forw[node]), LAMBDA q :   \* lp = lp->q_forw
                  IF Running(q) /\ ~q.ret THEN enable_interrupts(q)
                  ELSE ReadLoop(enable_interrupts(q), b, ln.next,
                                p.q_forw[node])))))

\* a faulty end of read_stream: an empty stream unterminates no line
ReadEndNewlineOnly(e, appended) ==
  IF ~Running(e) \/ ~e.ret THEN e
  ELSE IF appended /\ e.isbinary_ /\ e.newline_added
    THEN Bind(search_line_node(e, e.last_addr_), LAMBDA a :
           IF ~Running(a) THEN a
           ELSE [a EXCEPT !.unterminated_line = a.lp, !.ret = TRUE])
  ELSE e

\* the end of read_stream: in a binary buffer, a stream read at the end of
\* the buffer that had no final newline, or was empty, leaves the last line
\* of the buffer unterminated
ReadEnd(e, appended) ==
  IF ~Running(e) \/ ~e.ret THEN e
  ELSE IF appended /\ e.isbinary_ /\ (e.newline_added \/ e.total_size = 0)
    THEN Bind(search_line_node(e, e.last_addr_), LAMBDA a :
           IF ~Running(a) THEN a
           ELSE [a EXCEPT !.unterminated_line = a.lp, !.ret = TRUE])
  ELSE e

\* read_stream: read a stream into the editor buffer after addr
read_stream(s, b, addr) ==
  Bind(search_line_node(s, addr), LAMBDA a :
  Bind(unterminated_last_line(a), LAMBDA o :     \* o_unterminated_last_line
    IF ~Running(o) THEN o
    ELSE Bind(Arrive([o EXCEPT !.current_addr_ = addr, !.up = 0, !.ret = TRUE,
                               !.total_size = 0, !.newline_added = FALSE],
                     "read"), LAMBDA c :
         Bind(ReadLoop(c, b, 1, a.lp), LAMBDA e :
           ReadEnd(e, addr = a.last_addr_)))))

\* read_file: the line count is left in s.addr: -1 if the file cannot be
\* opened, -2 if it cannot be read or closed
read_file(s, file, addr) ==
  IF ~Running(s) THEN s
  ELSE IF file.io = "noopen" THEN [s EXCEPT !.addr = -1]
  ELSE Bind(read_stream(s, file.bytes, addr), LAMBDA r :
         IF ~Running(r) THEN r
         ELSE IF ~r.ret \/ file.io = "noclose" THEN [r EXCEPT !.addr = -2]
         ELSE [r EXCEPT !.addr = r.current_addr_ - addr])

\* the loop of write_stream: every line is written with a newline, except
\* the last line of a binary buffer when it is the unterminated line; the
\* bytes written are collected in s.h_out
RECURSIVE WriteLoop(_, _, _, _)
WriteLoop(s, node, from, to) ==
  IF ~Running(s) \/ from = 0 \/ from > to THEN s
  ELSE Bind(get_sbuf_line(s, node), LAMBDA g :
    IF ~Running(g) \/ ~g.ret THEN g
    ELSE Bind(IF from # g.last_addr_ \/ ~g.isbinary_
                THEN [g EXCEPT !.ret = FALSE]
                ELSE unterminated_last_line(g), LAMBDA u :
      IF ~Running(u) THEN u
      ELSE WriteLoop([u EXCEPT !.h_out = @ \o u.txt[node]
                                 \o (IF u.ret THEN << >> ELSE << "\n" >>),
                               !.ret = TRUE],
                     u.q_forw[node], from + 1, to)))

\* write_stream: write the lines from .. to to a stream
write_stream(s, from, to) ==
  Bind(search_line_node(s, from), LAMBDA a :
    IF ~Running(a) THEN a
    ELSE WriteLoop([a EXCEPT !.h_out = << >>, !.ret = TRUE], a.lp, from, to))

\* write_file: write a range of lines; the line count is left in s.addr
write_file(s, io, from, to) ==
  IF ~Running(s) THEN s
  ELSE IF io = "noopen" THEN [s EXCEPT !.addr = -1]
  ELSE Bind(write_stream(s, from, to), LAMBDA w :
         IF ~Running(w) THEN w
         ELSE IF ~w.ret \/ io = "noclose" THEN [w EXCEPT !.addr = -1]
         ELSE [w EXCEPT !.addr = IF from # 0 /\ from <= to
                                   THEN to - from + 1 ELSE 0])

\* get_line_node_addr: the address of a node, -1 if it is not in the ring
RECURSIVE AddrWalk(_, _, _, _)
AddrWalk(f, p, node, addr) ==
  IF p = node THEN addr
  ELSE IF f[p] = 0 \/ addr > MaxNodes THEN (IF addr # 0 THEN -1 ELSE 0)
  ELSE AddrWalk(f, f[p], node, addr + 1)

get_line_node_addr(s, node) == AddrWalk(s.q_forw, 0, node, 0)

\* the loop of build_active_list over the lines first_addr .. second_addr
RECURSIVE BuildLoop(_, _, _, _, _, _)
BuildLoop(s, node, addr, second_addr, pat, match) ==
  IF ~Running(s) \/ addr > second_addr THEN s
  ELSE Bind(get_sbuf_line(s, node), LAMBDA g :
    IF ~Running(g) \/ ~g.ret THEN g
    ELSE Bind(IF match = (regexec(g.txt[node], pat, 1) # 0)
                THEN set_active_node(g, node) ELSE g, LAMBDA a :
           BuildLoop(a, a.q_forw[node], addr + 1, second_addr, pat, match)))

\* build_active_list: add the lines matching ( or not ) to the active list
build_active_list(s, first_addr, second_addr, pat, match) ==
  Bind(clear_active_list(s), LAMBDA c :
  Bind(search_line_node(c, first_addr), LAMBDA a :
    IF ~Running(a) THEN a
    ELSE BuildLoop([a EXCEPT !.ret = TRUE], a.lp, first_addr, second_addr,
                   pat, match)))

\* ---------------------------------------------------------------- addresses
\* An address list is a sequence of tokens: a number, ".", "$", "+", "-",
\* "," or ";".
Num == [t \in {"0", "1", "2", "3", "4", "2147483647"} |->
          CASE t = "0" -> 0 [] t = "1" -> 1 [] t = "2" -> 2 [] t = "3" -> 3
            [] t = "2147483647" -> INT_MAX [] OTHER -> 4]

\* a sign with its number, as parse_int reads it after + or -
Offset == [t \in {"+3", "-3", "+2147483647"} |->
             CASE t = "+3" -> 3 [] t = "-3" -> 0 - 3 [] OTHER -> INT_MAX]

\* numbers for which parse_int fails: li > INT_MAX
Huge == {"4294967297"}

\* a mark as an address
MarkOf == [t \in {"'a", "'b"} |-> IF t = "'a" THEN "a" ELSE "b"]

\* second_addr += n on an int.  A sum outside the range of int is
\* undefined: the build either wraps it around ( s.wrap ) or does anything
\* else.  h_wraps counts the wraps, so that the sum of the numbers read is
\* second_addr + h_wraps * 2^32.
AddInt(s, n) ==
  IF n > 0 /\ s.second_addr > INT_MAX - n
    THEN IF s.wrap
           THEN [s EXCEPT !.second_addr = (@ - INT_MAX - 1) + (n - INT_MAX - 1),
                          !.h_wraps = @ + 1]
         ELSE [s EXCEPT !.ctl = "ub"]
  ELSE IF n < 0 /\ s.second_addr < (0 - INT_MAX - 1) - n
    THEN IF s.wrap
           THEN [s EXCEPT !.second_addr = (@ + INT_MAX + 1) + (n + INT_MAX + 1),
                          !.h_wraps = @ - 1]
         ELSE [s EXCEPT !.ctl = "ub"]
  ELSE [s EXCEPT !.second_addr = @ + n]

\* invalid_address
invalid_address(s) == [s EXCEPT !.errmsg = "Invalid address"]

\* the default branch of extract_addresses: the command character is met
ExtractEnd(s, first) ==
  IF ~first /\ (s.second_addr < 0 \/ s.second_addr > s.last_addr_)
    THEN [invalid_address(s) EXCEPT !.addr_cnt = -1]
    ELSE LET cnt == IF s.second_addr >= 0
                      THEN IF s.first_addr >= 0 THEN 2 ELSE 1
                      ELSE 0
             sec == IF cnt <= 0 THEN s.current_addr_ ELSE s.second_addr
         IN  [s EXCEPT !.addr_cnt = cnt, !.second_addr = sec,
                       !.first_addr = IF cnt <= 1 THEN sec ELSE @]

\* the separators "," and ";" of extract_addresses; ";" sets the current
\* address at once
ExtractSep(s, ch, first) ==
  IF first
    THEN IF s.first_addr < 0
           THEN [s EXCEPT !.first_addr = IF ch = ";" THEN s.current_addr_ ELSE 1,
                          !.second_addr = s.last_addr_]
           ELSE [s EXCEPT !.first_addr = s.second_addr]
    ELSE IF s.second_addr < 0 \/ s.second_addr > s.last_addr_
           THEN [invalid_address(s) EXCEPT !.addr_cnt = -1]
           ELSE [s EXCEPT !.current_addr_ = IF ch = ";" THEN s.second_addr ELSE @,
                          !.first_addr = s.second_addr]

\* the loop of extract_addresses; addr_cnt = -1 on error
RECURSIVE ExtractLoop(_, _, _, _)
ExtractLoop(s, toks, i, first) ==
  IF s.addr_cnt < 0 \/ ~Running(s) THEN s
  ELSE IF i > Len(toks) THEN ExtractEnd(s, first)
  ELSE IF toks[i] \in Huge                   \* Numerical result out of range
    THEN [s EXCEPT !.errmsg = "Numerical result out of range",
                   !.addr_cnt = -1, !.h_huge = TRUE]
  ELSE IF toks[i] \in DOMAIN Num
    THEN ExtractLoop(IF first THEN [s EXCEPT !.second_addr = Num[toks[i]]]
                     ELSE AddInt(s, Num[toks[i]]),
                     toks, i + 1, FALSE)
  ELSE IF toks[i] \in DOMAIN Offset
    THEN ExtractLoop(AddInt(IF first
                              THEN [s EXCEPT !.second_addr = s.current_addr_]
                            ELSE s, Offset[toks[i]]),
                     toks, i + 1, FALSE)
  ELSE IF toks[i] \in DOMAIN MarkOf
    THEN IF ~first THEN [invalid_address(s) EXCEPT !.addr_cnt = -1]
         ELSE IF get_line_node_addr(s, s.mark[MarkOf[toks[i]]]) < 0
           THEN [invalid_address(s) EXCEPT !.addr_cnt = -1]
         ELSE ExtractLoop([s EXCEPT !.second_addr =
                             get_line_node_addr(s, s.mark[MarkOf[toks[i]]])],
                          toks, i + 1, FALSE)
  ELSE IF toks[i] \in {"+", "-"}
    THEN ExtractLoop([s EXCEPT !.second_addr =
                        (IF first THEN s.current_addr_ ELSE @)
                          + (IF toks[i] = "+" THEN 1 ELSE -1)],
                     toks, i + 1, FALSE)
  ELSE IF toks[i] \in {".", "$"}
    THEN IF ~first THEN [invalid_address(s) EXCEPT !.addr_cnt = -1]
         ELSE ExtractLoop([s EXCEPT !.second_addr = IF toks[i] = "."
                                      THEN s.current_addr_ ELSE s.last_addr_],
                          toks, i + 1, FALSE)
  ELSE ExtractLoop(ExtractSep(s, toks[i], first), toks, i + 1, TRUE)

\* extract_addresses: the number of addresses is left in s.addr_cnt
extract_addresses(s, toks) ==
  ExtractLoop([s EXCEPT !.first_addr = -1, !.second_addr = -1, !.addr_cnt = 0],
              toks, 1, TRUE)

\* get_third_addr: the destination is left in s.addr
get_third_addr(s, toks) ==
  Bind(extract_addresses(s, toks), LAMBDA a :
    IF a.addr_cnt < 0 THEN [a EXCEPT !.ret = FALSE]
    ELSE IF a.second_addr < 0 \/ a.second_addr > a.last_addr_
      THEN [invalid_address(a) EXCEPT !.ret = FALSE]
    ELSE [a EXCEPT !.addr = a.second_addr, !.first_addr = s.first_addr,
                   !.second_addr = s.second_addr, !.addr_cnt = s.addr_cnt,
                   !.ret = TRUE])

\* a variant that leaves the error message alone
check_addr_range_silent(s, n, m, addr_cnt) ==
  LET f == IF addr_cnt = 0 THEN n ELSE s.first_addr
      e == IF addr_cnt = 0 THEN m ELSE s.second_addr
  IN  [s EXCEPT !.first_addr = f, !.second_addr = e,
                !.ret = ~(f < 1 \/ f > e \/ e > s.last_addr_)]

\* check_addr_range: set the default range; s.ret tells if it is valid
check_addr_range(s, n, m, addr_cnt) ==
  LET f == IF addr_cnt = 0 THEN n ELSE s.first_addr
      e == IF addr_cnt = 0 THEN m ELSE s.second_addr
      bad == f < 1 \/ f > e \/ e > s.last_addr_
  IN  [(IF bad THEN invalid_address(s) ELSE s)
         EXCEPT !.first_addr = f, !.second_addr = e, !.ret = ~bad]

\* check_addr_range2
check_addr_range2(s, addr_cnt) ==
  check_addr_range(s, s.current_addr_, s.current_addr_, addr_cnt)

\* ------------------------------------------------------------- commands
\* A command line: its address list, verb and arguments.
Cmd(c, adr) ==
  [c |-> c, adr |-> adr, dst |-> << >>, inp |-> << >>, pat |-> "x",
   repl |-> << >>, snum |-> 1, io |-> "ok", list |-> << >>,
   bytes |-> << >>, mk |-> "a", name |-> << "f" >>]

\* return ERR unless the function just called returned true
Fin(s) == IF ~Running(s) THEN s ELSE [s EXCEPT !.st = IF s.ret THEN 0 ELSE ERR]

Fail(s) == IF ~Running(s) THEN s ELSE [s EXCEPT !.st = ERR]

\* a faulty clear: the stack is cleared inside a global command too
ClearAlways(s, isglobal) == clear_undo_stack(s)

\* if( !isglobal ) clear_undo_stack();
Clear(s, isglobal) == IF isglobal THEN s ELSE clear_undo_stack(s)

\* h_ln observes the address at which a and i enter lines
AObs(x) ==
  [x EXCEPT !.h_ln = [first |-> 0, second |-> 0, dest |-> x.second_addr]]

\* h_ln observes the addresses first,second t dest as they were resolved
TObs(g) ==
  [g EXCEPT !.h_ln = [first |-> g.first_addr, second |-> g.second_addr,
                      dest |-> g.addr]]

\* case 'a'
case_a(x, cmd, prev_status, isglobal) ==
  Bind(Clear(AObs(x), isglobal), LAMBDA k :
  Bind(append_lines(k, cmd.inp, x.second_addr, FALSE, isglobal), LAMBDA r :
    Fin(r)))

\* case 'i'
case_i(x, cmd, prev_status, isglobal) ==
  Bind(Clear(AObs(x), isglobal), LAMBDA k :
  Bind(append_lines(k, cmd.inp, x.second_addr, TRUE, isglobal), LAMBDA r :
    Fin(r)))

\* case 'c'
case_c(x, cmd, prev_status, isglobal) ==
  Bind(check_addr_range2(x, x.addr_cnt), LAMBDA r2 :
    IF ~r2.ret THEN Fail(r2)
    ELSE Bind(Clear(r2, isglobal), LAMBDA k :
         Bind(delete_lines(k, r2.first_addr, r2.second_addr, isglobal),
              LAMBDA d :
           IF ~Running(d) \/ ~d.ret THEN Fin(d)
           ELSE Bind(append_lines(d, cmd.inp, d.current_addr_,
                                  d.current_addr_ >= r2.first_addr, isglobal),
                     LAMBDA r : Fin(r)))))

\* case 'd'
case_d(x, cmd, prev_status, isglobal) ==
  Bind(check_addr_range2(x, x.addr_cnt), LAMBDA r2 :
    IF ~r2.ret THEN Fail(r2)
    ELSE Bind(Clear(r2, isglobal), LAMBDA k :
         Bind(delete_lines(k, r2.first_addr, r2.second_addr, isglobal),
              LAMBDA d : Fin(d))))

\* case 'j'
case_j(x, cmd, prev_status, isglobal) ==
  Bind(check_addr_range(x, x.current_addr_, x.current_addr_ + 1, x.addr_cnt),
       LAMBDA r :
    IF ~r.ret THEN Fail(r)
    ELSE Bind(Clear(r, isglobal), LAMBDA k :
           IF r.first_addr < r.second_addr
             THEN Bind(join_lines(k, r.first_addr, r.second_addr, isglobal),
                       LAMBDA j : Fin(j))
             ELSE IF Running(k) THEN [k EXCEPT !.st = 0] ELSE k))

\* a faulty destination test: every destination is accepted
InvalidDestNever(first, second, dest) == FALSE

\* the destination of m lies inside the range moved
InvalidDest(first, second, dest) == dest >= first /\ dest < second

\* h_m observes the addresses first,second m dest as they were resolved
MObs(g) ==
  [g EXCEPT !.h_m = [first |-> g.first_addr, second |-> g.second_addr,
                     dest |-> g.addr]]

\* h_moved collects the lines first_addr .. second_addr that m moves
MovedObs(g) ==
  [g EXCEPT !.h_moved =
     @ \cup {BufSeq(g.q_forw)[i] :
               i \in {j \in g.first_addr .. g.second_addr :
                        j >= 1 /\ j <= Len(BufSeq(g.q_forw))}}]

\* case 'm'
case_m(x, cmd, prev_status, isglobal) ==
  Bind(check_addr_range2(x, x.addr_cnt), LAMBDA r2 :
    IF ~r2.ret THEN Fail(r2)
    ELSE Bind(get_third_addr(r2, cmd.dst), LAMBDA g :
      IF ~g.ret THEN Fail(g)
      ELSE IF InvalidDest(g.first_addr, g.second_addr, g.addr)
        THEN Fail([MObs(g) EXCEPT !.errmsg = "Invalid destination"])
      ELSE Bind(Clear(MovedObs(MObs(g)), isglobal), LAMBDA k :
           Bind(move_lines(k, g.first_addr, g.second_addr, g.addr, isglobal),
                LAMBDA m : Fin(m)))))

\* case 't'
case_t(x, cmd, prev_status, isglobal) ==
  Bind(check_addr_range2(x, x.addr_cnt), LAMBDA r2 :
    IF ~r2.ret THEN Fail(r2)
    ELSE Bind(get_third_addr(r2, cmd.dst), LAMBDA g :
      IF ~g.ret THEN Fail(g)
      ELSE Bind(Clear(TObs(g), isglobal), LAMBDA k :
           Bind(copy_lines(k, g.first_addr, g.second_addr, g.addr),
                LAMBDA t : Fin(t)))))

\* case 'q'
case_q(x, cmd, prev_status, isglobal) ==
  IF x.addr_cnt > 0 THEN Fail(x)
  ELSE IF x.modified_ /\ prev_status # EMOD THEN [x EXCEPT !.st = EMOD]
  ELSE [x EXCEPT !.st = QUIT]

\* ---------------------------------------------------------------- filenames
\* A filename is a sequence of characters.
\* strip_escapes: the character after a backslash is taken literally
RECURSIVE strip_escapes(_)
strip_escapes(p) ==
  IF p = << >> THEN << >>
  ELSE IF Head(p) = "\\"
    THEN IF Len(p) = 1 THEN << >>
         ELSE << p[2] >> \o strip_escapes(Tail(Tail(p)))
  ELSE << Head(p) >> \o strip_escapes(Tail(p))

\* strchr( name, c )
HasChar(name, c) == \E i \in 1 .. Len(name) : name[i] = c

\* may_access_filename
may_access_filename(s, name) ==
  IF s.restricted_ /\ name # << >> /\ name[1] = "!"
    THEN [s EXCEPT !.ret = FALSE, !.errmsg = "Shell access restricted"]
  ELSE IF s.restricted_ /\ (name = << ".", "." >> \/ HasChar(name, "/"))
    THEN [s EXCEPT !.ret = FALSE, !.errmsg = "Directory access restricted"]
  ELSE [s EXCEPT !.ret = TRUE]

\* a variant that builds the command in restricted mode too
get_shell_command_free(s, text) ==
  [s EXCEPT !.ret = TRUE, !.fnp = << "!" >> \o text]

\* get_shell_command: the command, prefixed with a bang, is left in s.fnp
get_shell_command(s, text) ==
  IF s.restricted_
    THEN [s EXCEPT !.ret = FALSE, !.errmsg = "Shell access restricted"]
  ELSE [s EXCEPT !.ret = TRUE, !.fnp = << "!" >> \o text]

\* get_filename: the name typed after the command is left in s.fnp
get_filename(s, name, traditional_f_command) ==
  IF name # << >> /\ name[1] = "!" THEN get_shell_command(s, Tail(name))
  ELSE IF name = << >> /\ ~traditional_f_command /\ s.def_filename = << >>
    THEN [s EXCEPT !.ret = FALSE, !.errmsg = "No current filename"]
  ELSE Bind(may_access_filename(s, name), LAMBDA m :
         IF m.ret THEN [m EXCEPT !.fnp = name] ELSE m)

\* the head of read_file and write_file: popen of a command, fopen of the
\* name with its escapes stripped
OpenObs(s, filename) ==
  IF ~Running(s) THEN s
  ELSE IF filename # << >> /\ filename[1] = "!"
    THEN [s EXCEPT !.h_spawned = TRUE]
  ELSE [s EXCEPT !.h_opened = @ \cup {strip_escapes(filename)}]

\* if( !def_filename[0] && fnp[0] != '!' ) set_def_filename( fnp )
DefaultIfNone(s) ==
  IF s.def_filename = << >> /\ ~(s.fnp # << >> /\ s.fnp[1] = "!")
    THEN [s EXCEPT !.def_filename = s.fnp] ELSE s

\* fnp[0] ? fnp : def_filename
NameOf(s) == IF s.fnp # << >> THEN s.fnp ELSE s.def_filename

\* case 'r'
case_r(x, cmd, prev_status, isglobal) ==
  Bind(get_filename([x EXCEPT !.second_addr = IF x.addr_cnt = 0
                                                THEN x.last_addr_ ELSE @],
                    cmd.name, FALSE), LAMBDA g :
    IF ~g.ret THEN Fail(g)
    ELSE
  Bind(Clear(DefaultIfNone(g), isglobal), LAMBDA k :
  Bind(read_file(OpenObs(k, NameOf(k)), [io |-> cmd.io, bytes |-> cmd.bytes],
                 k.second_addr),
       LAMBDA f :
    IF ~Running(f) THEN f
    ELSE IF f.addr < 0 THEN Fail(f)
    ELSE [f EXCEPT !.modified_ = IF f.addr # 0 THEN TRUE ELSE @, !.st = 0])))

\* case 'f': the default filename is set and printed
case_f(x, cmd, prev_status, isglobal) ==
  IF x.addr_cnt > 0 THEN Fail(x)
  ELSE Bind(get_filename(x, cmd.name, FALSE), LAMBDA g :
    IF ~g.ret THEN Fail(g)
    ELSE IF g.fnp # << >> /\ g.fnp[1] = "!"
      THEN Fail([g EXCEPT !.errmsg = "Invalid redirection"])
    ELSE [g EXCEPT !.def_filename = IF g.fnp # << >> THEN g.fnp ELSE @,
                   !.st = 0])

\* case '!': system( fnp + 1 )
case_bang(x, cmd, prev_status, isglobal) ==
  IF x.addr_cnt > 0 THEN Fail(x)
  ELSE Bind(get_shell_command(x, cmd.name), LAMBDA g :
    IF ~g.ret THEN Fail(g)
    ELSE [g EXCEPT !.h_spawned = TRUE, !.st = 0])

\* close_sbuf: close the scratch file; io = "tmpclose" makes fclose fail
close_sbuf(s, io) ==
  Bind(clear_yank_buffer(s), LAMBDA y :
  Bind(clear_undo_stack(y), LAMBDA k :
    IF ~Running(k) THEN k
    ELSE IF io = "tmpclose" THEN [k EXCEPT !.ret = FALSE]
    ELSE [k EXCEPT !.sfpos = 0, !.seek_write = FALSE, !.ret = TRUE]))

\* open_sbuf: a new, empty scratch file; io = "tmpopen" makes tmpfile fail
open_sbuf(s, io) ==
  IF ~Running(s) THEN s
  ELSE IF io = "tmpopen"
    THEN [s EXCEPT !.isbinary_ = FALSE, !.unterminated_line = Null,
                   !.ret = FALSE]
  ELSE [s EXCEPT !.isbinary_ = FALSE, !.unterminated_line = Null,
                 !.sfsize = 0, !.fpos = 0, !.ret = TRUE]

\* reset_undo_state
reset_undo_state(s) ==
  Bind(clear_undo_stack(s), LAMBDA k :
    IF ~Running(k) THEN k
    ELSE [k EXCEPT !.u_current_addr = 0 - 1, !.u_last_addr = 0 - 1,
                   !.u_modified = FALSE])

\* if( fnp[0] && fnp[0] != '!' ) set_def_filename( fnp )
SetDefault(s) ==
  IF s.fnp # << >> /\ s.fnp[1] # "!" THEN [s EXCEPT !.def_filename = s.fnp]
  ELSE s

\* case 'E', and case 'e' falling through to it
case_E(x, cmd, prev_status, isglobal) ==
  IF x.addr_cnt > 0 THEN Fail(x)
  ELSE Bind(get_filename(x, cmd.name, FALSE), LAMBDA g :
    IF ~g.ret THEN Fail(g)
    ELSE
       Bind(delete_lines(g, 1, g.last_addr_, isglobal), LAMBDA d :
    IF ~Running(d) \/ ~d.ret THEN Fin(d)
    ELSE Bind(close_sbuf(d, cmd.io), LAMBDA c :
      IF ~Running(c) \/ ~c.ret THEN Fin(c)
      ELSE Bind(open_sbuf(c, cmd.io), LAMBDA o :
        IF ~Running(o) THEN o
        ELSE IF ~o.ret THEN [o EXCEPT !.st = FATAL]
        ELSE Bind(read_file(OpenObs(SetDefault(o), NameOf(SetDefault(o))),
                            [io |-> cmd.io, bytes |-> cmd.bytes], 0),
                  LAMBDA f :
          IF ~Running(f) THEN f
          ELSE IF f.addr < 0 THEN Fail(f)
          ELSE Bind(reset_undo_state(f), LAMBDA r :
                 IF ~Running(r) THEN r
                 ELSE [r EXCEPT !.modified_ = FALSE, !.st = 0]))))))

\* a faulty case 'e': the buffer is replaced without the warning
case_e_unarmed(x, cmd, prev_status, isglobal) ==
  case_E(x, cmd, prev_status, isglobal)

\* case 'e'
case_e(x, cmd, prev_status, isglobal) ==
  IF x.modified_ /\ prev_status # EMOD THEN [x EXCEPT !.st = EMOD]
  ELSE case_E(x, cmd, prev_status, isglobal)

\* case 'k'
case_k(x, cmd, prev_status, isglobal) ==
  IF x.second_addr = 0 THEN Fail(invalid_address(x))
  ELSE Bind(search_line_node(x, x.second_addr), LAMBDA a :
       Bind(mark_line_node(a, a.lp, cmd.mk), LAMBDA m : Fin(m)))

\* case '=': the address is printed; h_val is the number printed
case_eq(x, cmd, prev_status, isglobal) ==
  Fin([x EXCEPT !.ret = TRUE,
                !.h_val = IF x.addr_cnt > 0 THEN x.second_addr
                          ELSE x.last_addr_])

\* command_s, the pattern, replacement and suffix having been parsed
command_s(x, cmd, prev_status, isglobal) ==
  Bind(check_addr_range2(x, x.addr_cnt), LAMBDA r2 :
    IF ~r2.ret THEN Fail(r2)
    ELSE Bind(Clear(r2, isglobal), LAMBDA k :
         Bind(search_and_replace(k, r2.first_addr, r2.second_addr, cmd.pat,
                                 cmd.repl, cmd.snum, isglobal),
              LAMBDA r : Fin(r))))

\* h_udone observes that u has been executed inside a global command,
\* h_uview the lines and last_addr_ the first such u left
UObs(r, isglobal) ==
  IF ~Running(r) \/ ~isglobal \/ r.h_udone THEN r
  ELSE [r EXCEPT !.h_udone = TRUE, !.h_before_u = r.h_nexec - 1,
                 !.h_uview = [seq |-> BufSeq(r.q_forw), last |-> r.last_addr_]]

\* case 'u'
case_u(x, cmd, prev_status, isglobal) ==
  IF x.addr_cnt > 0 THEN Fail(x)
  ELSE Bind(undo(x, isglobal), LAMBDA r : Fin(UObs(r, isglobal)))

\* case 'w'; h_saved tells that the whole buffer has been written
case_w(x, cmd, prev_status, isglobal) ==
  Bind(get_filename(x, cmd.name, FALSE), LAMBDA g :
    IF ~g.ret THEN Fail(g)
    ELSE
  Bind(IF g.addr_cnt = 0 /\ g.last_addr_ = 0
         THEN [g EXCEPT !.first_addr = 0, !.second_addr = 0, !.ret = TRUE]
         ELSE check_addr_range(g, 1, g.last_addr_, g.addr_cnt), LAMBDA r :
    IF ~r.ret THEN Fail(r)
    ELSE Bind(write_file(OpenObs(DefaultIfNone(r), NameOf(DefaultIfNone(r))),
                         cmd.io, r.first_addr, r.second_addr), LAMBDA w :
           IF ~Running(w) THEN w
           ELSE IF w.addr < 0 THEN Fail(w)
           ELSE [w EXCEPT !.modified_ =
                            IF w.addr = w.last_addr_
                               /\ ~(w.fnp # << >> /\ w.fnp[1] = "!")
                              THEN FALSE ELSE @,
                          !.h_saved = (w.addr = w.last_addr_), !.st = 0])))

\* case 'x'
case_x(x, cmd, prev_status, isglobal) ==
  IF x.second_addr < 0 \/ x.second_addr > x.last_addr_
    THEN Fail(invalid_address(x))
  ELSE Bind(Clear(x, isglobal), LAMBDA k :
       Bind(put_lines(k, x.second_addr), LAMBDA r : Fin(r)))

\* case 'y'
case_y(x, cmd, prev_status, isglobal) ==
  Bind(check_addr_range2(x, x.addr_cnt), LAMBDA r2 :
    IF ~r2.ret THEN Fail(r2)
    ELSE Bind(yank_lines(r2, r2.first_addr, r2.second_addr), LAMBDA r :
           Fin(r)))

RECURSIVE exec_command(_, _, _, _)

\* the commands of the command list, executed for one active line
RECURSIVE ListLoop(_, _, _)
ListLoop(s, list, i) ==
  IF ~Running(s) \/ i > Len(list) THEN s
  ELSE Bind(exec_command([s EXCEPT !.h_nexec = @ + 1], list[i], 0, TRUE),
            LAMBDA a :
         IF ~Running(a) \/ a.st # 0 THEN a ELSE ListLoop(a, list, i + 1))

\* the nodes of the live ring of s
LiveOf(s) == {BufSeq(s.q_forw)[i] : i \in 1 .. Len(BufSeq(s.q_forw))}

\* the selected lines that next_active_node has just passed over: those
\* before the node it returned ( all, when it returned none ) for which the
\* list has not been executed.  h_badskip observes that one of them is in
\* the buffer and has not been moved.
SkipObs(n) ==
  LET upto == IF n.np = Null THEN Len(n.h_sel)
              ELSE Cardinality({i \in 1 .. Len(n.h_sel) :
                                 \A j \in 1 .. i : n.h_sel[j] # n.np})
      done == {n.h_iters[i] : i \in 1 .. Len(n.h_iters)}
      skipped == {n.h_sel[i] : i \in 1 .. upto} \ done
  IN  [n EXCEPT !.h_badskip =
                  @ \/ \E k \in skipped : k \in LiveOf(n) /\ k \notin n.h_moved]

\* the list is about to be executed for the node np: h_iters collects the
\* nodes, h_ranmoved and h_dead observe a node that m has moved and a node
\* that is not in the buffer
IterObs(a) ==
  [a EXCEPT !.h_iters = Append(@, a.np),
            !.h_ranmoved = @ \/ a.np \in a.h_moved,
            !.h_dead = @ \/ a.np \notin LiveOf(a)]

\* the loop of exec_global over the active lines
RECURSIVE GlobalLoop(_, _)
GlobalLoop(s, list) ==
  IF ~Running(s) THEN s
  ELSE Bind(SkipObs(next_active_node(s)), LAMBDA n :
    IF n.np = Null THEN [n EXCEPT !.st = 0]
    ELSE Bind([n EXCEPT !.current_addr_ = get_line_node_addr(n, n.np)],
              LAMBDA a :
      IF a.current_addr_ < 0 THEN [a EXCEPT !.st = ERR]
      ELSE Bind(ListLoop(IterObs([a EXCEPT !.st = 0,
                                   !.h_after_u = IF a.h_udone THEN @ + 1
                                                 ELSE @]), list, 1), LAMBDA b :
             IF ~Running(b) \/ b.st # 0 THEN b ELSE GlobalLoop(b, list))))

\* a faulty exec_global: the undo stack is not cleared, so the frame of the
\* global command continues the frame of the command before it
exec_global_same_frame(s, list) == GlobalLoop(s, list)

\* exec_global: apply the command list to the active lines
exec_global(s, list) ==
  Bind(clear_undo_stack(s), LAMBDA k :
    GlobalLoop(IF Running(k) THEN [k EXCEPT !.h_sel = k.active_list] ELSE k,
               list))

\* case 'g', case 'v'
case_g(x, cmd, prev_status, isglobal) ==
  IF isglobal THEN Fail(x)                       \* Cannot nest global commands
  ELSE Bind(check_addr_range(x, 1, x.last_addr_, x.addr_cnt), LAMBDA r :
    IF ~r.ret THEN Fail(r)
    ELSE Bind(build_active_list(r, r.first_addr, r.second_addr, cmd.pat,
                                cmd.c = "g"), LAMBDA b :
           IF ~Running(b) \/ ~b.ret THEN Fin(b)
           ELSE exec_global(b, cmd.list)))

\* the switch of exec_command
Switch(x, cmd, prev_status, isglobal) ==
  CASE cmd.c = "a" -> case_a(x, cmd, prev_status, isglobal)
    [] cmd.c = "c" -> case_c(x, cmd, prev_status, isglobal)
    [] cmd.c = "d" -> case_d(x, cmd, prev_status, isglobal)
    [] cmd.c = "e" -> case_e(x, cmd, prev_status, isglobal)
    [] cmd.c = "E" -> case_E(x, cmd, prev_status, isglobal)
    [] cmd.c = "f" -> case_f(x, cmd, prev_status, isglobal)
    [] cmd.c = "!" -> case_bang(x, cmd, prev_status, isglobal)
    [] cmd.c \in {"g", "v"} -> case_g(x, cmd, prev_status, isglobal)
    [] cmd.c = "i" -> case_i(x, cmd, prev_status, isglobal)
    [] cmd.c = "j" -> case_j(x, cmd, prev_status, isglobal)
    [] cmd.c = "k" -> case_k(x, cmd, prev_status, isglobal)
    [] cmd.c = "m" -> case_m(x, cmd, prev_status, isglobal)
    [] cmd.c = "q" -> case_q(x, cmd, prev_status, isglobal)
    [] cmd.c = "r" -> case_r(x, cmd, prev_status, isglobal)
    [] cmd.c = "s" -> command_s(x, cmd, prev_status, isglobal)
    [] cmd.c = "t" -> case_t(x, cmd, prev_status, isglobal)
    [] cmd.c = "u" -> case_u(x, cmd, prev_status, isglobal)
    [] cmd.c = "w" -> case_w(x, cmd, prev_status, isglobal)
    [] cmd.c = "x" -> case_x(x, cmd, prev_status, isglobal)
    [] cmd.c = "y" -> case_y(x, cmd, prev_status, isglobal)
    [] OTHER -> Fail(x)                                   \* Unknown command

\* exec_command with the case of its switch given: the addresses are
\* extracted, then the case is executed
Exec(s, cmd, prev_status, isglobal, Case(_, _, _, _)) ==
  IF ~Running(s) THEN s
  ELSE Bind(extract_addresses(s, cmd.adr), LAMBDA x :
         IF x.addr_cnt < 0 THEN Fail(x)
         ELSE Case(x, cmd, prev_status, isglobal))

\* exec_command: execute one command; the status is left in s.st
exec_command(s, cmd, prev_status, isglobal) ==
  Exec(s, cmd, prev_status, isglobal, Switch)

\* ------------------------------------------------------------ observations
\* the ring q is well formed: q_back inverts q_forw along it, it returns
\* to buffer_head and holds no freed node
RingLinked(q, b, fr) ==
  /\ Len(q) <= MaxNodes
  /\ \A i \in 1 .. Len(q) : q[i] \notin fr /\ q[i] # 0
  /\ \A i \in 1 .. Len(q) : b[q[i]] = IF i = 1 THEN 0 ELSE q[i - 1]
  /\ b[0] = IF Len(q) = 0 THEN 0 ELSE q[Len(q)]

RingOK(f, b, fr) == RingLinked(BufSeq(f), b, fr)

View(f, la, ca, mo) == [seq |-> BufSeq(f), last |-> la, cur |-> ca, mod |-> mo]

NoView == [seq |-> << >>, last |-> 0, cur |-> 0, mod |-> FALSE]

\* the verbs that edit the buffer
Structural == {"a", "i", "c", "d", "j", "m", "t", "s", "r", "x"}

Hist0 ==
  [ pre |-> NoView, cmd |-> "none", res |-> "none", changed |-> FALSE,
    hasu |-> FALSE, semi |-> FALSE, where |-> "none", k |-> 0, acur |-> -1,
    run |-> 0, ures |-> "none", u1 |-> NoView, u2 |-> NoView,
    edited |-> FALSE, unguarded |-> {}, arr |-> -1, xfer |-> -1,
    inner |-> 0, imm |-> FALSE, torn |-> FALSE,
    frame |-> FALSE, m |-> [first |-> 0, second |-> 0, dest |-> 0 - 1],
    errmsg |-> "", out |-> << >>, wall |-> FALSE,
    rin |-> << >>, rnow |-> FALSE, rprev |-> FALSE, bin |-> FALSE,
    enow |-> FALSE, eprev |-> FALSE, warned |-> FALSE, prevwarn |-> FALSE,
    warns |-> 0, st |-> 0, unref |-> {}, before_u |-> 0,
    sel |-> << >>, iters |-> << >>, moved |-> {}, ranmoved |-> FALSE,
    dead |-> FALSE, badskip |-> FALSE, stale |-> FALSE, everr |-> FALSE,
    opened |-> {}, spawned |-> FALSE, bang |-> FALSE, werr |-> FALSE,
    hup |-> FALSE, hupzero |-> FALSE,
    clobber |-> FALSE, seeked |-> FALSE, twice |-> FALSE, udone |-> FALSE, after_u |-> 0,
    uview |-> [seq |-> << >>, last |-> 0] ]

\* how the command ended: "ok", "err" ( a status other than 0 ), "jmp"
\* ( interrupted ), "exit" or "ub"
Res(r) == IF r.ctl = "run" THEN (IF r.st = 0 THEN "ok" ELSE "err") ELSE r.ctl

\* the observations of the signal guard and of the critical sections
Guard(h, r, b, a) ==
  [h EXCEPT !.edited = IF r.h_saved THEN FALSE ELSE @ \/ a.seq # b.seq,
            !.unguarded = r.h_unguarded, !.arr = r.h_arr, !.xfer = r.h_xfer,
            !.inner = r.h_inner, !.imm = r.h_imm,
            !.torn = @ \/ (r.ctl = "jmp" /\ r.h_where = "clear"),
            !.clobber = @ \/ r.h_clobber, !.twice = @ \/ r.h_twice,
            !.seeked = r.h_seeked, !.stale = r.h_stale,
            !.hup = r.h_hup, !.hupzero = r.h_hupzero,
            !.opened = r.h_opened, !.spawned = r.h_spawned,
            !.werr = r.h_werr,
            !.everr = @ \/ (session = "exit" /\ r.ctl = "run"
                              /\ r.st \in {ERR, EMOD, FATAL}),
            !.warned = (r.ctl = "run" /\ r.st = EMOD),
            !.warns = IF r.ctl = "run" /\ r.st = EMOD THEN @ + 1 ELSE @,
            !.unref = @ \cup r.h_unref,
            !.prevwarn = hist.warned]

\* the undo frame: the atoms of the stack and the snapshot
Frame(s) ==
  [ustack |-> SubSeq(s.ustack, 1, s.u_idx), u_idx |-> s.u_idx,
   u_current_addr |-> s.u_current_addr, u_last_addr |-> s.u_last_addr,
   u_modified |-> s.u_modified]

\* the command read a file into a buffer that held no line
ReadsEmpty(r, cmd, b) ==
  /\ Res(r) = "ok"
  /\ \/ cmd.c = "r" /\ b.last = 0
     \/ cmd.c = "E"
     \/ cmd.c = "e" /\ r.st = 0

\* the observations after command cmd took the program from view b to
\* record r, of view a: pre .. acur describe the last command other than
\* u, run .. u2 the u commands typed since
NewHist(r, cmd, b, a) ==
  IF cmd.c = "u"
    THEN Guard([hist EXCEPT
                  !.run = @ + 1, !.ures = Res(r), !.u1 = b,
                  !.u2 = IF hist.run >= 1 THEN hist.u1 ELSE NoView,
                  !.rnow = FALSE, !.enow = FALSE],
               r, b, a)
    ELSE Guard([hist EXCEPT
                  !.pre = b, !.cmd = cmd.c, !.res = Res(r),
                  !.changed = a.seq # b.seq,
                  !.hasu = \E i \in 1 .. Len(cmd.list) : cmd.list[i].c = "u",
                  !.semi = \/ \E i \in 1 .. Len(cmd.adr) : cmd.adr[i] = ";"
                           \/ \E i \in 1 .. Len(cmd.dst) : cmd.dst[i] = ";",
                  !.where = r.h_where, !.k = r.h_k, !.acur = r.h_acur,
                  !.run = 0, !.ures = "none", !.u1 = NoView, !.u2 = NoView,
                  !.frame = cmd.c = "m" /\ Frame(r) = Frame(St),
                  !.m = IF cmd.c \in {"a", "i", "t"} /\ session = "lines"
                          THEN r.h_ln ELSE r.h_m,
                  !.errmsg = r.errmsg,
                  !.st = IF r.ctl = "run" THEN r.st ELSE 0,
                  !.out = r.h_out,
                  !.wall = cmd.c = "w" /\ Res(r) = "ok" /\ r.h_saved,
                  !.rin = IF ReadsEmpty(r, cmd, b) THEN cmd.bytes
                          ELSE IF cmd.c = "w" THEN @ ELSE << >>,
                  !.rnow = ReadsEmpty(r, cmd, b),
                  !.rprev = cmd.c = "w" /\ hist.rnow,
                  !.enow = /\ cmd.c = "r" /\ Res(r) = "ok" /\ isbinary_
                           /\ cmd.bytes = << >>
                           /\ r.second_addr = last_addr_ /\ last_addr_ > 0,
                  !.eprev = cmd.c = "w" /\ hist.enow,
                  !.bin = isbinary_,
                  !.udone = r.h_udone, !.after_u = r.h_after_u,
                  !.before_u = r.h_before_u,
                  !.sel = r.h_sel, !.iters = r.h_iters, !.moved = r.h_moved,
                  !.ranmoved = r.h_ranmoved, !.dead = r.h_dead,
                  !.badskip = r.h_badskip,
                  !.bang = \/ cmd.c = "!"
                           \/ /\ cmd.c \in {"r", "w", "e", "E", "f"}
                              /\ cmd.name # << >> /\ cmd.name[1] = "!",
                  !.uview = r.h_uview],
               r, b, a)

\* the variables take the values of the record
Commit(r) ==
  /\ q_forw' = r.q_forw /\ q_back' = r.q_back /\ txt' = r.txt
  /\ nalloc' = r.nalloc /\ freed' = r.freed
  /\ current_addr_' = r.current_addr_ /\ last_addr_' = r.last_addr_
  /\ modified_' = r.modified_ /\ yank' = r.yank
  /\ ustack' = r.ustack /\ u_idx' = r.u_idx
  /\ u_current_addr' = r.u_current_addr /\ u_last_addr' = r.u_last_addr
  /\ u_modified' = r.u_modified /\ lp' = r.lp /\ o_addr' = r.o_addr
  /\ active_list' = r.active_list /\ active_idx' = r.active_idx
  /\ active_idxm' = r.active_idxm /\ mutex' = r.mutex
  /\ sighup_pending' = r.sighup_pending /\ sigint_pending' = r.sigint_pending
  /\ markno' = r.markno /\ mark' = r.mark /\ isbinary_' = r.isbinary_
  /\ unterminated_line' = r.unterminated_line /\ pos' = r.pos
  /\ sfsize' = r.sfsize /\ fpos' = r.fpos /\ sfpos' = r.sfpos
  /\ seek_write' = r.seek_write
  /\ exit_code' = r.exit_code
  /\ def_filename' = r.def_filename /\ restricted_' = r.restricted_

\* ------------------------------------------------------------------- Init
\* the file named on the command line: n lines "x"
InitFile(n) == [i \in 1 .. n |-> << "x" >>]

\* ed without option on a terminal, the file argument read without error
Interactive == [loose |-> FALSE, regular |-> FALSE, initial_error |-> FALSE]

\* a variant that never sets err_status, as if -l were always given
AfterCommandLoose(st, es0) ==
  /\ err_status' = es0
  /\ retval' = IF st = 0 THEN Null
               ELSE IF st = QUIT THEN es0
               ELSE IF st = FATAL THEN 1
               ELSE IF opts.regular THEN es0 ELSE Null
  /\ opts' = opts

\* a variant that goes on after an error whatever stdin is
AfterCommandPiped(st, es0) ==
  LET es == IF st # 0 /\ st # QUIT /\ ~opts.loose /\ es0 = 0 THEN 1 ELSE es0
  IN  /\ err_status' = es
      /\ retval' = IF st = 0 THEN Null
                   ELSE IF st = QUIT THEN es0
                   ELSE IF st = FATAL THEN 1 ELSE Null
      /\ opts' = opts

\* main_loop after a command has left status st: the loop goes on after 0,
\* returns err_status after QUIT; any other status sets err_status unless
\* loose, and ends the loop if it is FATAL or stdin is a regular file
AfterCommand(st, es0) ==
  LET es == IF st # 0 /\ st # QUIT /\ ~opts.loose /\ es0 = 0 THEN 1 ELSE es0
  IN  /\ err_status' = es
      /\ retval' = IF st = 0 THEN Null
                   ELSE IF st = QUIT THEN es0
                   ELSE IF st = FATAL THEN 1
                   ELSE IF opts.regular THEN es ELSE Null
      /\ opts' = opts

\* regex.c is not followed
NoRegex == [pc |-> "none"]

\* the variables hold the record r when main_loop is entered, and rx
\* holds x
LoadedRegex(r, sg, ses, h, o, x) ==
  /\ q_forw = r.q_forw /\ q_back = r.q_back /\ txt = r.txt
  /\ nalloc = r.nalloc /\ freed = r.freed
  /\ current_addr_ = r.current_addr_ /\ last_addr_ = r.last_addr_
  /\ modified_ = r.modified_ /\ yank = r.yank
  /\ ustack = r.ustack /\ u_idx = r.u_idx
  /\ u_current_addr = r.u_current_addr /\ u_last_addr = r.u_last_addr
  /\ u_modified = r.u_modified /\ lp = r.lp /\ o_addr = r.o_addr
  /\ active_list = r.active_list /\ active_idx = r.active_idx
  /\ active_idxm = r.active_idxm /\ mutex = r.mutex
  /\ sighup_pending = r.sighup_pending /\ sigint_pending = r.sigint_pending
  /\ markno = r.markno /\ mark = r.mark /\ isbinary_ = r.isbinary_
  /\ unterminated_line = r.unterminated_line /\ pos = r.pos
  /\ sfsize = r.sfsize /\ fpos = r.fpos /\ sfpos = r.sfpos
  /\ seek_write = r.seek_write
  /\ exit_code = r.exit_code
  /\ def_filename = r.def_filename /\ restricted_ = r.restricted_
  /\ status = (IF o.initial_error THEN -1 ELSE 0)
  /\ pc = "loop" /\ sigs = sg /\ ncmd = 0 /\ hist = h
  /\ session = ses
  /\ opts = o /\ retval = Null
  /\ err_status = IF o.initial_error THEN 1 ELSE 0
  /\ rx = x

LoadedWith(r, sg, ses, h, o) == LoadedRegex(r, sg, ses, h, o, NoRegex)

Loaded(r, sg, ses, h) == LoadedWith(r, sg, ses, h, Interactive)

\* main(): init_buffers(), then read_file( arg, 0 ) of a file of at most
\* MaxInit lines, then main_loop
Start(sg) ==
  \E n \in 0 .. MaxInit :
    \E r \in {read_file(Main, [io |-> "ok", bytes |-> Bytes(InitFile(n))], 0)} :
      Loaded(r, sg, IF sg THEN "sig" ELSE "edit", Hist0)

\* the arrival points of the signals delivered during one command:
\* << int_at, hup_at >>, at most one signal per command ( one of each in
\* the sessions on hang-ups )
Sig ==
  IF session = "hup"
    THEN {<< i, h >> : i \in {NoSig} \cup 0 .. MaxTick,
                       h \in {NoSig} \cup 0 .. MaxHupTick}
  ELSE IF sigs
    THEN {<< NoSig, NoSig >>} \cup {<< t, NoSig >> : t \in 0 .. MaxTick}
           \cup {<< NoSig, t >> : t \in 0 .. MaxHupTick}
    ELSE {<< NoSig, NoSig >>}

\* main_loop after exec_command has left the program in r.  The exit
\* status that main_loop will return is followed in the sessions on the
\* exit status.
Step(r, cmd) ==
  /\ r.ctl # "cap"
  /\ r.int_at = NoSig /\ r.hup_at = NoSig
  /\ Commit(r)
  /\ rx' = rx
  /\ status' = IF r.ctl = "jmp" THEN -1
               ELSE IF r.ctl = "run" THEN r.st ELSE status
  /\ IF r.ctl = "run" /\ session = "exit" THEN AfterCommand(r.st, err_status)
     ELSE UNCHANGED << opts, err_status, retval >>
  /\ pc' = IF \/ r.ctl = "exit"
              \/ r.ctl = "run" /\ (r.st = QUIT \/ retval' # Null) THEN "exit"
           ELSE IF r.ctl = "ub" THEN "ub" ELSE "loop"
  /\ \E b \in {View(q_forw, last_addr_, current_addr_, modified_)} :
       \E a \in {View(r.q_forw, r.last_addr_, r.current_addr_, r.modified_)} :
         hist' = NewHist(r, cmd, b, a)
  /\ sigs' = sigs /\ session' = session
  /\ ncmd' = IF cmd.c = "u" THEN ncmd ELSE ncmd + 1

\* the commands of a session on the statics of regex.c
MaxRegexCmds == 3
\* the commands of a session on addresses, and the tokens of an address
MaxAddrCmds == 3
MaxAddrToks == 3

\* the commands other than u that a session of each kind holds
Budget ==
  CASE session = "sig" -> MaxSigCmds
    [] session = "file" -> MaxFileCmds
    [] session = "glob" -> MaxGlobCmds
    [] session = "quit" -> MaxQuitCmds
    [] session = "hup" -> MaxHupCmds
    [] session = "exit" -> MaxExitCmds
    [] session = "red" -> MaxRedCmds
    [] session = "mutex" -> MaxMutexCmds
    [] session = "lines" -> MaxLineCmds
    [] session = "regex" -> MaxRegexCmds
    [] session = "addr" -> MaxAddrCmds
    [] OTHER -> MaxCmds

\* a session holds at most Budget commands other than u, and at most
\* MaxUndos u commands in a row
More(cmd) ==
  IF cmd.c = "u" THEN hist.run < MaxUndos
  ELSE ncmd < Budget

\* whether a dump of the buffer to ed.hup or $HOME/ed.hup succeeds
HupOk == IF session = "hup" THEN BOOLEAN ELSE {TRUE}

\* whether the writes to the scratch file fail during the command
WFail == IF session = "mutex" THEN BOOLEAN ELSE {FALSE}

\* one iteration of main_loop: the command line read is executed
Do(cmd, Case(_, _, _, _)) ==
  /\ More(cmd)
  /\ \E sg \in Sig, ok \in HupOk, wf \in WFail :
       \E s0 \in {[St EXCEPT !.int_at = sg[1], !.hup_at = sg[2],
                              !.hup_ok = ok, !.wfail = wf]} :
         \E r \in {Exec(s0, cmd, status, FALSE, Case)} : Step(r, cmd)

\* ------------------------------------------------------------------ inputs
\* the text typed after a/i/c, the lines of a file read by r: lines "y"
Inputs == {[i \in 1 .. n |-> << "y" >>] : n \in 0 .. MaxInput}

\* address lists that select one line ( a, i, r, x ) or a range
Points == {<< >>, << "0" >>}
Ranges == {<< >>, << "1" >>, << "," >>, << "1", ";", "$" >>}
Dests == {<< "0" >>, << "1" >>, << "$" >>}
Repls == {<< "y" >>, << "x", "\n", "&" >>}

\* the files read by r: readable, missing, or failing when closed
Files ==
  {[io |-> "ok", bytes |-> Bytes(inp)] : inp \in Inputs}
    \cup {[io |-> "noopen", bytes |-> << >>],
          [io |-> "noclose", bytes |-> Bytes(<< << "y" >> >>)]}

\* the commands of a command list
GCmds ==
  {Cmd("d", << >>), Cmd("u", << >>), Cmd("j", << ".", ",", "+" >>),
   [Cmd("a", << >>) EXCEPT !.inp = << << "y" >> >>],
   [Cmd("m", << >>) EXCEPT !.dst = << "0" >>],
   [Cmd("t", << >>) EXCEPT !.dst = << "$" >>],
   [Cmd("s", << >>) EXCEPT !.repl = << "y" >>]}

\* the command lists of at most n commands: a command, then u's
RECURSIVE ListsTo(_)
ListsTo(n) ==
  IF n <= 1 THEN {<< c >> : c \in GCmds}
  ELSE ListsTo(n - 1)
         \cup {Append(l, Cmd("u", << >>)) : l \in ListsTo(n - 1)}

Lists == ListsTo(MaxList)

\* the global commands: g/x/ on every line, v/x/ on the lines 1;$
Globals == {Cmd("g", << >>), Cmd("v", << "1", ";", "$" >>)}

\* ----------------------------------------------------------------- actions
\* Each action is one iteration of main_loop: get_stdin_line returns a
\* command line, exec_command executes it.
CmdAppend ==
  /\ pc = "loop"
  /\ \E adr \in Points, inp \in Inputs :
       Do([Cmd("a", adr) EXCEPT !.inp = inp], case_a)

CmdInsert ==
  /\ pc = "loop"
  /\ \E adr \in Points, inp \in Inputs :
       Do([Cmd("i", adr) EXCEPT !.inp = inp], case_i)

CmdChange ==
  /\ pc = "loop"
  /\ \E adr \in Ranges, inp \in Inputs :
       Do([Cmd("c", adr) EXCEPT !.inp = inp], case_c)

CmdDelete ==
  /\ pc = "loop"
  /\ \E adr \in Ranges : Do(Cmd("d", adr), case_d)

CmdJoin ==
  /\ pc = "loop"
  /\ \E adr \in Ranges : Do(Cmd("j", adr), case_j)

CmdMove ==
  /\ pc = "loop"
  /\ \E adr \in Ranges, dst \in Dests :
       Do([Cmd("m", adr) EXCEPT !.dst = dst], case_m)

CmdCopy ==
  /\ pc = "loop"
  /\ \E adr \in Ranges, dst \in Dests :
       Do([Cmd("t", adr) EXCEPT !.dst = dst], case_t)

CmdSubst ==
  /\ pc = "loop"
  /\ \E adr \in Ranges, repl \in Repls :
       Do([Cmd("s", adr) EXCEPT !.repl = repl], command_s)

CmdRead ==
  /\ pc = "loop"
  /\ \E adr \in Points, f \in Files :
       Do([Cmd("r", adr) EXCEPT !.bytes = f.bytes, !.io = f.io], case_r)

CmdPut ==
  /\ pc = "loop"
  /\ \E adr \in Points : Do(Cmd("x", adr), case_x)

CmdYank ==
  /\ pc = "loop"
  /\ \E adr \in Ranges : Do(Cmd("y", adr), case_y)

CmdUndo ==
  /\ pc = "loop"
  /\ Do(Cmd("u", << >>), case_u)

CmdWrite ==
  /\ pc = "loop"
  /\ \E w \in {Cmd("w", << >>), Cmd("w", << "1" >>),
               [Cmd("w", << >>) EXCEPT !.io = "noopen"],
               [Cmd("w", << >>) EXCEPT !.io = "noclose"]} : Do(w, case_w)

CmdGlobal ==
  /\ pc = "loop"
  /\ \E g \in Globals, list \in Lists : Do([g EXCEPT !.list = list], case_g)

CmdQuit ==
  /\ pc = "loop"
  /\ Do(Cmd("q", << >>), case_q)

Init == Start(FALSE)

Next ==
  \/ CmdAppend \/ CmdInsert \/ CmdChange \/ CmdDelete \/ CmdJoin \/ CmdMove
  \/ CmdCopy \/ CmdSubst \/ CmdRead \/ CmdPut \/ CmdYank \/ CmdUndo
  \/ CmdWrite \/ CmdGlobal \/ CmdQuit

Spec == Init /\ [][Next]_vars

\* ------------------------------------------------ sessions under signals
\* In these sessions SIGINT or SIGHUP may arrive while a command executes
\* ( at an arrival point chosen by Do ) or while main_loop waits for input.
SigAppend ==
  /\ pc = "loop" /\ sigs
  /\ \E inp \in {i \in Inputs : Len(i) = MaxInput} :
       Do([Cmd("a", << >>) EXCEPT !.inp = inp], case_a)

SigDelete ==
  /\ pc = "loop" /\ sigs
  /\ Do(Cmd("d", << >>), case_d)

SigUndo ==
  /\ pc = "loop" /\ sigs
  /\ Do(Cmd("u", << >>), case_u)

SigGlobal ==
  /\ pc = "loop" /\ sigs
  /\ \E list \in {l \in ListsTo(1) : l[1].c \in {"a", "d"}} :
       Do([Cmd("g", << >>) EXCEPT !.list = list], case_g)

\* SIGINT while get_stdin_line waits in main_loop: longjmp, status = -1
SigintAtPrompt ==
  /\ pc = "loop" /\ sigs /\ mutex = 0
  /\ status' = -1
  /\ UNCHANGED << q_forw, q_back, txt, nalloc, freed, current_addr_,
                  last_addr_, modified_, yank, ustack, u_idx, u_current_addr,
                  u_last_addr, u_modified, lp, o_addr, active_list,
                  active_idx, active_idxm, mutex, sighup_pending,
                  sigint_pending, markno, mark, isbinary_, unterminated_line,
                  pos, sfsize, fpos, sfpos, seek_write, def_filename,
                  restricted_, pc, exit_code, sigs,
                  ncmd, hist, session, opts, err_status, retval, rx >>

\* SIGHUP while get_stdin_line waits in main_loop: the buffer is saved in
\* ed.hup if it is modified, then exit
SighupAtPrompt ==
  /\ pc = "loop" /\ sigs /\ mutex = 0
  /\ \E ok \in BOOLEAN :
       \E r \in {sighup_handler([St EXCEPT !.hup_ok = ok, !.h_at = "prompt"])} :
         /\ Commit(r)
         /\ pc' = IF r.ctl = "ub" THEN "ub" ELSE "exit"
         /\ hist' = [hist EXCEPT !.cmd = "hup", !.res = Res(r),
                                  !.hup = r.h_hup, !.hupzero = r.h_hupzero]
  /\ UNCHANGED << status, sigs, ncmd, session, opts, err_status, retval,
                  rx >>

InitSig == Start(TRUE)

NextSig ==
  \/ SigAppend \/ SigDelete \/ SigUndo \/ SigGlobal
  \/ SigintAtPrompt \/ SighupAtPrompt

SpecSig == InitSig /\ [][NextSig]_vars

\* -------------------------------------------------- sessions on hang-ups
\* a SIGHUP and a SIGINT may both arrive during one command
StartHup ==
  \E n \in 0 .. MaxInit :
    \E r \in {read_file(Main, [io |-> "ok", bytes |-> Bytes(InitFile(n))], 0)} :
      Loaded(r, TRUE, "hup", Hist0)

HupAppend ==
  /\ pc = "loop"
  /\ \E inp \in {i \in Inputs : Len(i) = 1} :
       Do([Cmd("a", << >>) EXCEPT !.inp = inp], case_a)

HupDelete ==
  /\ pc = "loop"
  /\ Do(Cmd("d", << >>), case_d)

InitHup == StartHup

NextHup == HupAppend \/ HupDelete \/ SigintAtPrompt \/ SighupAtPrompt

SpecHup == InitHup /\ [][NextHup]_vars

\* ---------------------------------------------- sessions on the exit status
\* main() with or without -l, stdin a regular file or not, the file named
\* on the command line read with or without error
Opts ==
  {o \in [loose : BOOLEAN, regular : BOOLEAN, initial_error : BOOLEAN] :
     ~(o.regular /\ o.initial_error)}      \* main() has returned 2

StartExit ==
  \E n \in 0 .. 1, o \in Opts :
    \E r \in {read_file(Main, [io |-> "ok", bytes |-> Bytes(InitFile(n))], 0)} :
      LoadedWith(r, FALSE, "exit", Hist0, o)

ExitAppend ==
  /\ pc = "loop"
  /\ \E inp \in {i \in Inputs : Len(i) = 1} :
       Do([Cmd("a", << >>) EXCEPT !.inp = inp], case_a)

\* d of the current line, or of the invalid address 0
ExitDelete ==
  /\ pc = "loop"
  /\ \E adr \in {<< >>, << "0" >>} : Do(Cmd("d", adr), case_d)

\* E of a file that is read, cannot be opened, or while tmpfile fails
ExitEdit ==
  /\ pc = "loop"
  /\ \E io \in {"ok", "noopen", "tmpopen"} :
       Do([Cmd("E", << >>) EXCEPT !.io = io, !.bytes = << "x", "\n" >>],
          case_E)

ExitQuit ==
  /\ pc = "loop"
  /\ Do(Cmd("q", << >>), case_q)

\* the variables of the editor, as opposed to those of main_loop
EdVars ==
  << q_forw, q_back, txt, nalloc, freed, current_addr_, last_addr_,
     modified_, yank, ustack, u_idx, u_current_addr, u_last_addr,
     u_modified, lp, o_addr, active_list, active_idx, active_idxm,
     mutex, sighup_pending, sigint_pending, markno, mark, isbinary_,
     unterminated_line, pos, sfsize, fpos, sfpos, seek_write, exit_code,
     def_filename, restricted_ >>

\* get_stdin_line returns a line of length 0: EOF on stdin ( 'q' )
ExitEof ==
  /\ pc = "loop" /\ ncmd < Budget
  /\ \E st \in {IF ~modified_ \/ status = EMOD THEN QUIT ELSE EMOD} :
       /\ status' = st
       /\ AfterCommand(st, IF st = EMOD /\ ~opts.loose THEN 2 ELSE err_status)
       /\ pc' = IF retval' # Null THEN "exit" ELSE "loop"
       /\ hist' = [hist EXCEPT !.cmd = "eof",
                                !.res = IF st = QUIT THEN "ok" ELSE "err",
                                !.warned = (st = EMOD), !.prevwarn = hist.warned]
  /\ ncmd' = ncmd + 1
  /\ UNCHANGED << EdVars, sigs, session, rx >>

\* get_stdin_line returns 0: an error happened, main_loop returns 2
ExitReadError ==
  /\ pc = "loop" /\ ncmd < Budget
  /\ retval' = 2 /\ pc' = "exit"
  /\ hist' = [hist EXCEPT !.cmd = "readerr", !.res = "err"]
  /\ ncmd' = ncmd + 1
  /\ UNCHANGED << EdVars, sigs, session, status, opts, err_status, rx >>

InitExit == StartExit

NextExit ==
  \/ ExitAppend \/ ExitDelete \/ ExitEdit \/ ExitQuit \/ ExitEof
  \/ ExitReadError

SpecExit == InitExit /\ [][NextExit]_vars

\* ------------------------------------------------- sessions on lines
\* The lines of the file and the lines typed have texts of their own, and
\* the commands a, i, t and m are given every address.
Digits == << "1", "2", "3" >>

\* a file of n lines: 1, 2, 3
LineFile(n) == [i \in 1 .. n |-> << Digits[i] >>]

\* the lines typed after a and i: a, then b
Typing == << << "a" >>, << "b" >> >>

LineInputs == {SubSeq(Typing, 1, k) : k \in 0 .. MaxInput}

LinePoints ==
  {<< >>, << "0" >>} \cup {<< Digits[i] >> : i \in 1 .. MaxLines}

LineRanges ==
  {<< >>} \cup {<< Digits[i] >> : i \in 1 .. MaxLines}
    \cup {<< Digits[i], ",", Digits[j] >> : i, j \in 1 .. MaxLines}

StartLines ==
  \E n \in 0 .. MaxLines :
    \E r \in {read_file(Main, [io |-> "ok", bytes |-> Bytes(LineFile(n))], 0)} :
      Loaded(r, FALSE, "lines", Hist0)

LinesAppend ==
  /\ pc = "loop"
  /\ \E adr \in LinePoints, inp \in LineInputs :
       Do([Cmd("a", adr) EXCEPT !.inp = inp], case_a)

LinesInsert ==
  /\ pc = "loop"
  /\ \E adr \in LinePoints, inp \in LineInputs :
       Do([Cmd("i", adr) EXCEPT !.inp = inp], case_i)

LinesCopy ==
  /\ pc = "loop"
  /\ \E adr \in LineRanges, dst \in LinePoints \ {<< >>} :
       Do([Cmd("t", adr) EXCEPT !.dst = dst], case_t)

LinesMove ==
  /\ pc = "loop"
  /\ \E adr \in LineRanges, dst \in LinePoints \ {<< >>} :
       Do([Cmd("m", adr) EXCEPT !.dst = dst], case_m)

InitLines == StartLines

NextLines == LinesAppend \/ LinesInsert \/ LinesCopy \/ LinesMove

SpecLines == InitLines /\ [][NextLines]_vars

\* ------------------------------------- sessions on the critical sections
\* Signals arrive as in the sessions under signals, and the writes to the
\* scratch file may fail, so that critical sections are left by their
\* error returns.
StartMutex ==
  \E n \in 0 .. 1 :
    \E r \in {read_file(Main, [io |-> "ok", bytes |-> Bytes(InitFile(n))], 0)} :
      Loaded(r, TRUE, "mutex", Hist0)

MutexAppend ==
  /\ pc = "loop"
  /\ \E inp \in {i \in Inputs : Len(i) >= 1} :
       \/ Do([Cmd("a", << >>) EXCEPT !.inp = inp], case_a)
       \/ Do([Cmd("i", << >>) EXCEPT !.inp = inp], case_i)

MutexSubst ==
  /\ pc = "loop"
  /\ Do([Cmd("s", << >>) EXCEPT !.repl = << "y" >>], command_s)

MutexCopy ==
  /\ pc = "loop"
  /\ Do([Cmd("t", << >>) EXCEPT !.dst = << "0" >>], case_t)

MutexUndo ==
  /\ pc = "loop"
  /\ Do(Cmd("u", << >>), case_u)

InitMutex == StartMutex

NextMutex ==
  \/ MutexAppend \/ MutexSubst \/ MutexCopy \/ MutexUndo
  \/ SigintAtPrompt \/ SighupAtPrompt

SpecMutex == InitMutex /\ [][NextMutex]_vars

\* ------------------------------------------- sessions on file names
\* the names of at most n characters over dot and backslash
RECURSIVE NamesTo(_)
NamesTo(n) ==
  IF n = 0 THEN {<< >>}
  ELSE NamesTo(n - 1)
         \cup {Append(b, c) : b \in {f \in NamesTo(n - 1) : Len(f) = n - 1},
                              c \in {".", "\\"}}

\* the file names typed: the names above, a plain name, a name with a
\* slash, and a shell command
RedNames == NamesTo(MaxName) \cup {<< "a" >>, << "/" >>, << "!", "a" >>}

\* the names typed after a command: get_extended_line joins a line that
\* ends in a backslash with the next one, so no typed name ends in one
Typed == {n \in RedNames : n = << >> \/ n[Len(n)] # "\\"}

\* main(): the file argument is read if may_access_filename allows it, and
\* becomes the default filename unless it is a shell command; stdin is not
\* a regular file
MainArg(rs, arg, io) ==
  LET m == may_access_filename([Boot EXCEPT !.restricted_ = rs], arg)
      f == read_file(OpenObs(m, arg), [io |-> io, bytes |-> << "x", "\n" >>],
                     0)
  IN  IF ~m.ret THEN m
      ELSE IF arg[1] # "!" THEN [f EXCEPT !.def_filename = arg] ELSE f

StartRed ==
  \E rs \in BOOLEAN, io \in {"ok", "noopen"} :
    \/ Loaded([Boot EXCEPT !.restricted_ = rs], FALSE, "red", Hist0)
    \/ \E arg \in RedNames \ {<< >>} :
         \E r \in {MainArg(rs, arg, io)} :
           LoadedWith(r, FALSE, "red",
                      [Hist0 EXCEPT !.cmd = "main", !.bang = arg[1] = "!",
                                    !.res = IF r.ret /\ r.addr >= 0 THEN "ok"
                                            ELSE "err",
                                    !.opened = r.h_opened,
                                    !.spawned = r.h_spawned],
                      [Interactive EXCEPT
                         !.initial_error = ~r.ret \/ r.addr = 0 - 2])

RedRead ==
  /\ pc = "loop"
  /\ \E name \in Typed, io \in {"ok"} :
       Do([Cmd("r", << >>) EXCEPT !.name = name, !.io = io,
                                  !.bytes = << "x", "\n" >>], case_r)

RedWrite ==
  /\ pc = "loop"
  /\ \E name \in Typed, io \in {"ok"} :
       Do([Cmd("w", << >>) EXCEPT !.name = name, !.io = io], case_w)

RedEdit ==
  /\ pc = "loop"
  /\ \E name \in Typed, io \in {"ok"} :
       \/ Do([Cmd("e", << >>) EXCEPT !.name = name, !.io = io,
                                     !.bytes = << "x", "\n" >>], case_e)
       \/ Do([Cmd("E", << >>) EXCEPT !.name = name, !.io = io,
                                     !.bytes = << "x", "\n" >>], case_E)

RedName ==
  /\ pc = "loop"
  /\ \E name \in Typed : Do([Cmd("f", << >>) EXCEPT !.name = name], case_f)

\* !true
RedShell ==
  /\ pc = "loop"
  /\ Do([Cmd("!", << >>) EXCEPT !.name = << "a" >>], case_bang)

InitRed == StartRed

NextRed == RedRead \/ RedWrite \/ RedEdit \/ RedName \/ RedShell

SpecRed == InitRed /\ [][NextRed]_vars

\* ------------------------------------------------------ sessions on files
\* the byte sequences of at most n bytes over x, newline and NUL
RECURSIVE BytesTo(_)
BytesTo(n) ==
  IF n = 0 THEN {<< >>}
  ELSE BytesTo(n - 1)
         \cup {Append(b, c) : b \in {f \in BytesTo(n - 1) : Len(f) = n - 1},
                              c \in {"x", "\n", NUL}}

\* the files read by r and E in these sessions
RFiles == {<< >>, << "x" >>, << "x", "\n" >>, << NUL, "\n" >>}

\* main(): init_buffers(), then read_file( arg, 0 ) of a file of at most
\* MaxBytes bytes, then main_loop
StartFile ==
  \E b \in BytesTo(MaxBytes) :
    \E r \in {read_file(Main, [io |-> "ok", bytes |-> b], 0)} :
      Loaded(r, FALSE, "file", [Hist0 EXCEPT !.rin = b, !.rnow = TRUE])

FileRead ==
  /\ pc = "loop"
  /\ \E b \in RFiles : Do([Cmd("r", << >>) EXCEPT !.bytes = b], case_r)

FileEdit ==
  /\ pc = "loop"
  /\ \E b \in RFiles : Do([Cmd("E", << >>) EXCEPT !.bytes = b], case_E)

FileSubst ==
  /\ pc = "loop"
  /\ Do([Cmd("s", << "$" >>) EXCEPT !.repl = << "y" >>], command_s)

FileWrite ==
  /\ pc = "loop"
  /\ Do(Cmd("w", << >>), case_w)

InitF == StartFile

NextFile == FileRead \/ FileEdit \/ FileSubst \/ FileWrite

SpecFile == InitF /\ [][NextFile]_vars

\* ------------------------------------------- sessions of e, q, k and edits
\* the files named on the command line: text of at most MaxInit lines, and
\* a binary file whose last line lacks the newline
QuitFiles ==
  {Bytes(InitFile(n)) : n \in 0 .. MaxInit} \cup {<< "x", "\n", NUL, "x" >>}

StartQuit ==
  \E b \in QuitFiles :
    \E r \in {read_file(Main, [io |-> "ok", bytes |-> b], 0)} :
      Loaded(r, FALSE, "quit", Hist0)

\* e and E of a file that is read, cannot be opened, or is read while the
\* scratch file cannot be closed
QuitEdit ==
  /\ pc = "loop"
  /\ \E c \in {"e", "E"}, io \in {"ok", "noopen", "tmpclose"} :
       Do([Cmd(c, << >>) EXCEPT !.io = io, !.bytes = << "x", "\n" >>],
          Switch)

QuitSubst ==
  /\ pc = "loop"
  /\ Do([Cmd("s", << >>) EXCEPT !.repl = << "y" >>], command_s)

QuitDelete ==
  /\ pc = "loop"
  /\ \E adr \in {<< >>, << "1" >>} : Do(Cmd("d", adr), case_d)

QuitMark ==
  /\ pc = "loop"
  /\ \E adr \in {<< >>, << "1" >>}, c \in Marks :
       Do([Cmd("k", adr) EXCEPT !.mk = c], case_k)

QuitGlobal ==
  /\ pc = "loop"
  /\ Do([Cmd("g", << >>) EXCEPT !.list = << Cmd("d", << >>) >>], case_g)

QuitUndo ==
  /\ pc = "loop"
  /\ Do(Cmd("u", << >>), case_u)

QuitQuit ==
  /\ pc = "loop"
  /\ Do(Cmd("q", << >>), case_q)

\* SIGINT while get_stdin_line waits in main_loop: longjmp, status = -1
QuitInterrupt ==
  /\ pc = "loop" /\ mutex = 0
  /\ status' = -1
  /\ hist' = [hist EXCEPT !.warned = FALSE]
  /\ UNCHANGED << q_forw, q_back, txt, nalloc, freed, current_addr_,
                  last_addr_, modified_, yank, ustack, u_idx, u_current_addr,
                  u_last_addr, u_modified, lp, o_addr, active_list,
                  active_idx, active_idxm, mutex, sighup_pending,
                  sigint_pending, markno, mark, isbinary_, unterminated_line,
                  pos, sfsize, fpos, sfpos, seek_write, def_filename,
                  restricted_, pc, exit_code, sigs,
                  ncmd, session, opts, err_status, retval, rx >>

InitQuit == StartQuit

NextQuit ==
  \/ QuitEdit \/ QuitSubst \/ QuitDelete \/ QuitMark \/ QuitGlobal
  \/ QuitUndo \/ QuitQuit \/ QuitInterrupt

SpecQuit == InitQuit /\ [][NextQuit]_vars

\* -------------------------------------------- sessions of global commands
\* the commands of the command lists of these sessions
GlobCmds ==
  {Cmd("d", << >>), Cmd("u", << >>), Cmd("j", << ".", ",", "+" >>),
   [Cmd("m", << "$" >>) EXCEPT !.dst = << "0" >>],
   [Cmd("a", << >>) EXCEPT !.inp = << << "y" >> >>],
   [Cmd("s", << >>) EXCEPT !.repl = << "y" >>]}

\* the command lists of at most n commands
RECURSIVE GlobListsTo(_)
GlobListsTo(n) ==
  IF n <= 1 THEN {<< c >> : c \in GlobCmds}
  ELSE GlobListsTo(n - 1)
         \cup {Append(l, c) : l \in {k \in GlobListsTo(n - 1) : Len(k) = n - 1},
                              c \in GlobCmds}

StartGlob ==
  \E n \in 0 .. MaxInit :
    \E r \in {read_file(Main, [io |-> "ok", bytes |-> Bytes(InitFile(n))], 0)} :
      Loaded(r, FALSE, "glob", Hist0)

GlobAppend ==
  /\ pc = "loop"
  /\ Do([Cmd("a", << >>) EXCEPT !.inp = << << "x" >> >>], case_a)

GlobGlobal ==
  /\ pc = "loop" /\ hist.cmd # "g"
  /\ \E list \in GlobListsTo(MaxGlobList) :
       Do([Cmd("g", << >>) EXCEPT !.list = list], case_g)

GlobUndo ==
  /\ pc = "loop"
  /\ Do(Cmd("u", << >>), case_u)

InitGlob == StartGlob

NextGlob == GlobAppend \/ GlobGlobal \/ GlobUndo

SpecGlob == InitGlob /\ [][NextGlob]_vars

\* ------------------------------------------------------------------ claims
\* the view of the buffer in the present state
Here == View(q_forw, last_addr_, current_addr_, modified_)

\* the last command other than u was one of the verbs vs, ended with
\* status 0, and exactly n u commands were typed since
After(vs, n) == hist.cmd \in vs /\ hist.res = "ok" /\ hist.run = n

\* C1: after a top-level a, i, c, d, j, m, t, s, r or x that succeeded and
\* changed the line sequence, an immediately following u succeeds and
\* restores the line sequence and last to what they were before the command.
C1_UndoRestoresLines ==
  (After(Structural, 1) /\ hist.changed)
    => /\ pc = "loop" /\ hist.ures = "ok"
       /\ BufSeq(q_forw) = hist.pre.seq
       /\ last_addr_ = hist.pre.last

\* a move that changed the order of the lines, followed by one u
C1_Witness ==
  /\ After({"m"}, 1) /\ hist.changed /\ hist.ures = "ok"
  /\ Len(hist.pre.seq) >= 2

\* C2: u twice in a row leaves current, last, modified and the line sequence
\* as they were before the first u, whatever the undo frame contains.
C2_UndoInvolution ==
  hist.run >= 2 => pc = "loop" /\ Here = hist.u2

\* the frame of a global command, undone and redone: the second u changed
\* the buffer back
C2_Witness ==
  /\ After({"g", "v"}, 2) /\ hist.changed /\ hist.ures = "ok"
  /\ Here # hist.u1
  /\ \E i \in 1 .. Len(ustack) : ustack[i].type \in {UADD, UDEL}

\* C3: in every state in which a command is awaited, last equals the number
\* of line records linked on the ring between the sentinel and itself.
C3_LastCountsRing ==
  pc = "loop" => last_addr_ = Len(BufSeq(q_forw))

\* C4: SIGINT delivered while a reads input, after k >= 1 lines were
\* inserted, aborts to the command loop with exactly those k lines inserted
\* and a well-linked ring; the next u restores the line sequence and last.
C4_InterruptedAppend ==
  (hist.cmd = "a" /\ hist.res = "jmp" /\ hist.where = "read" /\ hist.k >= 1)
    => /\ hist.run = 0
         => /\ pc = "loop" /\ mutex = 0
            /\ last_addr_ = hist.pre.last + hist.k
            /\ Len(BufSeq(q_forw)) = Len(hist.pre.seq) + hist.k
            /\ SelectSeq(BufSeq(q_forw), LAMBDA n :
                   \E i \in 1 .. Len(hist.pre.seq) : hist.pre.seq[i] = n)
                 = hist.pre.seq
            /\ RingOK(q_forw, q_back, freed)
       /\ (hist.run = 1 /\ hist.ures \in {"ok", "err", "ub"})
         => /\ hist.ures = "ok"
            /\ BufSeq(q_forw) = hist.pre.seq
            /\ last_addr_ = hist.pre.last

\* C5: a signal arriving while the nesting counter is above zero transfers
\* no control and is recorded as pending; it is replayed when
\* enable_interrupts brings the counter to zero, never at a nested call.
C5_PendingReplayedAtZero ==
  /\ (hist.arr > 0 /\ pc # "ub") => ~hist.imm /\ hist.xfer = 0
  /\ pc = "loop" => mutex = 0 /\ ~sigint_pending /\ ~sighup_pending

\* SIGINT arrived in a critical section, a nested enable_interrupts was
\* passed with the signal pending, and the outermost one replayed it
C5_Witness ==
  /\ hist.arr > 0 /\ hist.inner >= 1 /\ hist.xfer = 0
  /\ hist.res = "jmp" /\ pc = "loop"

\* C6: every mutation of the line ring, the yank ring, the undo stack and
\* the active list runs with the nesting counter above zero, so no SIGINT
\* returns control to main_loop in the middle of such a mutation.
C6_MutationsGuarded ==
  hist.unguarded = {} /\ ~hist.torn

\* C7: modified is true if and only if the line sequence was edited since
\* the last successful write of the whole buffer or the fresh load.
C7_ModifiedIffEdited ==
  pc = "loop" => (modified_ <=> hist.edited)

\* C8: after any successful structural command, 0 <= current <= last, and
\* current > 0 unless last = 0.
C8_CurrentInRange ==
  After(Structural, 0)
    => /\ 0 <= current_addr_ /\ current_addr_ <= last_addr_
       /\ (current_addr_ > 0 \/ last_addr_ = 0)

\* C8, amended: after any successful structural command 0 <= current <= last,
\* and if the command changed the line sequence, current > 0 unless last = 0.
C8_CurrentInRangeChanged ==
  After(Structural, 0)
    => /\ 0 <= current_addr_ /\ current_addr_ <= last_addr_
       /\ (hist.changed => current_addr_ > 0 \/ last_addr_ = 0)

\* a command that changed the line sequence and left current on an inner line
C8_Witness ==
  /\ After(Structural, 0) /\ hist.changed
  /\ current_addr_ > 0 /\ current_addr_ < last_addr_

\* C9: after a successful top-level structural command followed by u,
\* current and modified equal their values from before the command was
\* typed, for every form of address list.
C9_SnapshotBeforeCommand ==
  (After(Structural, 1) /\ hist.ures = "ok")
    => current_addr_ = hist.pre.cur /\ modified_ = hist.pre.mod

C12_InvalidDestination ==
  (/\ hist.cmd = "m" /\ hist.run = 0
   /\ hist.m.first <= hist.m.dest /\ hist.m.dest < hist.m.second)
    => /\ hist.res = "err" /\ hist.errmsg = "Invalid destination"
       /\ BufSeq(q_forw) = hist.pre.seq /\ last_addr_ = hist.pre.last
       /\ modified_ = hist.pre.mod /\ hist.frame

\* a move of two lines to a destination inside the range, typed when the
\* undo stack holds the frame of the command before
C12_Witness ==
  /\ hist.cmd = "m" /\ hist.run = 0
  /\ hist.m.first <= hist.m.dest /\ hist.m.dest < hist.m.second
  /\ hist.m.first < hist.m.second /\ u_idx > 0 /\ modified_

\* the bytes of the lines with a newline between them and none at the end
RECURSIVE BytesOpen(_)
BytesOpen(lines) ==
  IF Len(lines) = 0 THEN << >>
  ELSE IF Len(lines) = 1 THEN Head(lines)
  ELSE Head(lines) \o << "\n" >> \o BytesOpen(Tail(lines))

\* the texts of the lines of the buffer
BufText == [i \in 1 .. Len(BufSeq(q_forw)) |-> txt[BufSeq(q_forw)[i]]]

Terminated(b) ==
  \/ Len(b) = 0 \/ b[Len(b)] = "\n" \/ \E i \in 1 .. Len(b) : b[i] = NUL

C18_EmptyReadUnterminates ==
  (hist.cmd = "w" /\ hist.run = 0 /\ hist.wall /\ hist.eprev)
    => hist.out = BytesOpen(BufText)

\* the last line was changed by s after the binary file had been loaded
C18_Witness ==
  /\ hist.cmd = "w" /\ hist.run = 0 /\ hist.wall /\ hist.eprev
  /\ last_addr_ > 0 /\ txt[q_back[0]] = << NUL, "y" >>
  /\ hist.out = BytesOpen(BufText)

\* C16: the scratch file is append-only: no write of put_sbuf_line has
\* placed bytes inside the record of a line, and the record of every line
\* not freed lies inside the file.
C16_AppendOnly ==
  /\ ~hist.clobber
  /\ \A n \in 1 .. nalloc :
       n \notin freed => pos[n] >= 0 /\ pos[n] + Len(txt[n]) <= sfsize

\* a line has been put after a read had left the stream before the end of
\* the scratch file
C16_Witness == hist.seeked /\ ~hist.clobber /\ ~seek_write /\ sfsize >= 3

\* C11: when a command has failed after it changed the buffer, the u typed
\* next succeeds and restores the lines and last_addr_ of before the
\* command.
C11_FailedCommandUndoable ==
  (hist.res = "err" /\ hist.changed /\ hist.run = 1)
    => /\ hist.ures = "ok"
       /\ BufSeq(q_forw) = hist.pre.seq /\ last_addr_ = hist.pre.last

\* C13: q and e on a modified buffer return the warning and leave the
\* buffer alone, unless the event just before was a command that returned
\* the warning; then they proceed.
C13_WarningOnce ==
  (hist.cmd \in {"q", "e"} /\ hist.run = 0 /\ hist.pre.mod)
    => IF hist.prevwarn
         THEN hist.st # EMOD /\ (hist.cmd = "q" => pc = "exit")
         ELSE /\ hist.st = EMOD /\ pc = "loop" /\ modified_
              /\ BufSeq(q_forw) = hist.pre.seq /\ last_addr_ = hist.pre.last

\* q has been refused a second time: an interrupt or another command came
\* between the first warning and this q
C13_Witness ==
  /\ hist.cmd = "q" /\ hist.run = 0 /\ hist.pre.mod /\ hist.st = EMOD
  /\ hist.warns = 2 /\ status = EMOD

\* q has gone through after the warning
C13_WitnessProceeds ==
  hist.cmd = "q" /\ hist.pre.mod /\ hist.prevwarn /\ pc = "exit"

\* the nodes of the live ring
Live == {BufSeq(q_forw)[i] : i \in 1 .. Len(BufSeq(q_forw))}

\* C14: a record freed by clear_undo_stack is not on the live ring, no
\* mark and not unterminated_line points to it, and none is freed twice.
C14_FreedUnreferenced ==
  /\ ~hist.twice
  /\ \A n \in freed :
       /\ n \notin Live
       /\ \A c \in Marks : mark[c] # n
       /\ unterminated_line # n

\* clear_undo_stack has freed a line that was marked and a line that was
\* the unterminated line
C14_Witness ==
  /\ hist.unref = {"mark", "unterminated"} /\ freed # {} /\ pc = "loop"
  /\ markno = 0 /\ unterminated_line = Null

\* the records an atom refers to: the first and the last of its range
AtomNodes(at) == {at.head, at.tail}

C19_UndoEndsGlobal == hist.cmd = "g" => hist.after_u = 0

\* u was executed in the list for the first of two matching lines, and the
\* global command ended with both lines still in the buffer
C19_Witness ==
  /\ hist.cmd = "g" /\ hist.run = 0 /\ hist.udone /\ hist.res = "ok"
  /\ hist.pre.last = 2 /\ last_addr_ = 2 /\ hist.after_u = 0

C21_MovedLinesInactive == hist.cmd = "g" => ~hist.ranmoved

\* a selected line was moved before its turn, and the global command ended
\* without the list being executed for it
C21_Witness ==
  /\ hist.cmd = "g" /\ hist.run = 0 /\ hist.res = "ok" /\ ~hist.udone
  /\ \E i \in 1 .. Len(hist.sel) :
       /\ hist.sel[i] \in hist.moved
       /\ \A j \in 1 .. Len(hist.iters) : hist.iters[j] # hist.sel[i]

\* the iterations of the last global command are selected lines, taken in
\* the order of the selection, each at most once
InSelectionOrder ==
  \E f \in [1 .. Len(hist.iters) -> 1 .. Len(hist.sel)] :
    /\ \A i \in 1 .. Len(hist.iters) : hist.sel[f[i]] = hist.iters[i]
    /\ \A i, j \in 1 .. Len(hist.iters) : i < j => f[i] < f[j]

\* the selection of the last global command is made of lines of the buffer
\* as it was when the command began, in ascending order of address
AscendingSelection ==
  \E f \in [1 .. Len(hist.sel) -> 1 .. Len(hist.pre.seq)] :
    /\ \A i \in 1 .. Len(hist.sel) : hist.pre.seq[f[i]] = hist.sel[i]
    /\ \A i, j \in 1 .. Len(hist.sel) : i < j => f[i] < f[j]

\* C30 ( as stated ): a global command executes its list for the selected
\* lines in ascending order, never for a line that is not in the buffer, at
\* most once per selected line, and passes over exactly the lines deleted,
\* replaced or moved earlier in the same global command.
C30_SkipsExactlyRemoved ==
  hist.cmd = "g" =>
    /\ AscendingSelection
    /\ InSelectionOrder
    /\ Len(hist.iters) <= Len(hist.sel)
    /\ ~hist.dead
    /\ ~hist.badskip

\* C30 ( amended ): the same, where a line that is in the buffer and was not
\* moved is passed over only after a u of the list has ended the global
\* command.
C30_SkipsRemovedUnlessUndo ==
  hist.cmd = "g" =>
    /\ AscendingSelection
    /\ InSelectionOrder
    /\ Len(hist.iters) <= Len(hist.sel)
    /\ ~hist.dead
    /\ hist.badskip => hist.udone

\* a global command whose list deleted a selected line before its turn and
\* added lines: the list ran for fewer lines than were selected
C30_Witness ==
  /\ hist.cmd = "g" /\ hist.res = "ok" /\ ~hist.udone
  /\ Len(hist.sel) = 2 /\ Len(hist.iters) = 1
  /\ hist.moved = {} /\ ~hist.badskip
  /\ Len(BufSeq(q_forw)) > 0

\* C29: in every reachable state the lines of the buffer form a ring:
\* forward links from buffer_head come back to it, back links invert them.
C29_RingWellFormed ==
  /\ RingOK(q_forw, q_back, freed)
  /\ \A n \in {0} \cup LiveOf([q_forw |-> q_forw]) :
       q_back[q_forw[n]] = n /\ q_forw[q_back[n]] = n

\* C28: every call of search_line_node for an address 0 .. last returns the
\* node that many steps forward from buffer_head, and the cached pair
\* ( o_addr, lp ) it keeps names a node at its address.
C28_LookupExact ==
  /\ ~hist.stale
  /\ pc = "loop" /\ o_addr >= 0 /\ o_addr <= last_addr_
       => ~Astray([q_forw |-> q_forw, last_addr_ |-> last_addr_], o_addr, lp)

\* C25: once sighup_handler runs unmasked the process exits, with status 0
\* if the buffer is empty or unmodified or a dump succeeds and with status 1
\* otherwise; main_loop is not entered again.
C25_HangupTerminates ==
  hist.hup => pc = "exit" /\ exit_code = (IF hist.hupzero THEN 0 ELSE 1)

\* main_loop has returned
Returned == pc = "exit" /\ retval # Null

C26_WitnessStrict ==
  /\ Returned /\ ~opts.loose /\ hist.everr /\ retval = 1
  /\ hist.cmd = "q" /\ status = QUIT /\ ~opts.regular

\* C27: when stdin is a regular file a command that returns an error status
\* ends main_loop; otherwise ERR and EMOD never end it: main_loop returns
\* only after QUIT, after FATAL or when standard input cannot be read.
C27_ScriptStopsAtError ==
  /\ opts.regular /\ status \in {ERR, EMOD, FATAL} /\ hist.cmd # "none"
       => Returned
  /\ ~opts.regular /\ Returned
       => status \in {QUIT, FATAL} \/ hist.cmd = "readerr"
  /\ ~opts.regular /\ status \in {ERR, EMOD} /\ hist.cmd # "readerr"
       => pc = "loop"

\* a script whose third command is the first to fail: main_loop returns
C27_Witness ==
  /\ opts.regular /\ Returned /\ status = ERR /\ ncmd = 3
  /\ ~opts.initial_error


\* ------------------------------------------------------- restricted mode
\* C23: in restricted mode no command and no file argument reaches system()
\* or popen(): ! and the !-forms given to r, w, e, E, f or to main fail
C23_NoShellWhenRestricted ==
  restricted_ => /\ ~hist.spawned
                 /\ (hist.bang => hist.res = "err")

\* a !-form was given to a file command in restricted mode
C23_Witness ==
  /\ restricted_ /\ hist.bang /\ hist.cmd \in {"r", "w", "E"}
  /\ hist.res = "err" /\ hist.errmsg = "Shell access restricted"

\* C24: in restricted mode no name handed to fopen, after its escapes are
\* stripped, contains a slash or is ..
C24_NoDirectoryWhenRestricted ==
  restricted_ => \A n \in hist.opened :
                   ~HasChar(n, "/") /\ n # << ".", "." >>


\* --------------------------------------------------------- empty buffer
\* the last command, other than u, was typed on an empty buffer
OnEmpty == hist.cmd # "none" /\ hist.run = 0 /\ hist.pre.last = 0

\* the command failed with Invalid address and changed nothing
Refused ==
  /\ hist.res = "err" /\ hist.errmsg = "Invalid address"
  /\ View(q_forw, last_addr_, current_addr_, modified_) = hist.pre

\* the verbs that take line addresses, other than a, i and r
Addressing == {"c", "d", "j", "m", "t", "s", "y", "g", "v", "w", "x"}

Texts(seq) == [i \in 1 .. Len(seq) |-> txt[seq[i]]]

\* the last command was c and it succeeded
Done(c) == hist.cmd = c /\ hist.run = 0 /\ hist.res = "ok"

\* seq with the elements ins inserted after its first d elements
Inserted(seq, d, ins) ==
  SubSeq(seq, 1, d) \o ins \o SubSeq(seq, d + 1, Len(seq))

\* seq without its elements f .. s
Without(seq, f, s) == SubSeq(seq, 1, f - 1) \o SubSeq(seq, s + 1, Len(seq))

\* C32: first,second t dest, dest inside [first, second) included, yields
\* the original lines with one copy of the lines first .. second, in order,
\* after the original line dest; last grows by second - first + 1 and the
\* current address is that of the last copy
C32_CopyInsertsRange ==
  Done("t") =>
    LET f == hist.m.first
        s == hist.m.second
        d == hist.m.dest
        old == hist.pre.seq
    IN  /\ Texts(BufSeq(q_forw))
              = Inserted(Texts(old), d, SubSeq(Texts(old), f, s))
        /\ Without(BufSeq(q_forw), d + 1, d + s - f + 1) = old
        /\ \A i \in d + 1 .. d + s - f + 1 :
              \A j \in 1 .. Len(old) : BufSeq(q_forw)[i] # old[j]
        /\ last_addr_ = hist.pre.last + s - f + 1
        /\ current_addr_ = d + s - f + 1

\* two lines were copied to a destination inside their range
C32_Witness ==
  /\ Done("t") /\ hist.m.first <= hist.m.dest /\ hist.m.dest < hist.m.second
  /\ hist.m.first >= 1

\* C33: first,second m dest, dest outside [first, second), yields the
\* original lines with the lines first .. second taken out and put back, in
\* order, after the original line dest; last is unchanged and the current
\* address is that of the last moved line; for dest = first - 1 and
\* dest = second nothing moves, no undo atom is pushed and the current
\* address is second
C33_MoveReinsertsRange ==
  Done("m") =>
    LET f == hist.m.first
        s == hist.m.second
        d == hist.m.dest
        old == hist.pre.seq
        k == s - f + 1
        at == IF d < f THEN d ELSE d - k
    IN  /\ BufSeq(q_forw) = Inserted(Without(old, f, s), at, SubSeq(old, f, s))
        /\ last_addr_ = hist.pre.last
        /\ current_addr_ = at + k
        /\ (d = f - 1 \/ d = s)
             => BufSeq(q_forw) = old /\ u_idx = 0 /\ current_addr_ = s

\* lines were moved towards the end of the buffer
C33_Witness ==
  /\ Done("m") /\ hist.m.dest > hist.m.second /\ hist.m.first >= 1
  /\ BufSeq(q_forw) # hist.pre.seq

\* C34: k lines entered with a at address n stand at n + 1 .. n + k in the
\* order typed, with i at max( n, 1 ) .. max( n, 1 ) + k - 1; last grows by
\* k and the current address is that of the last line entered, n if k = 0
C34_EnteredInPlace ==
  (Done("a") \/ Done("i")) =>
    LET n == hist.m.dest
        k == hist.k
        at == IF hist.cmd = "a" THEN n ELSE Max(n, 1) - 1
        old == hist.pre.seq
    IN  /\ Texts(BufSeq(q_forw))
              = Inserted(Texts(old), at, SubSeq(Typing, 1, k))
        /\ Without(BufSeq(q_forw), at + 1, at + k) = old
        /\ last_addr_ = hist.pre.last + k
        /\ current_addr_ = IF k = 0 THEN n ELSE at + k

\* two lines were inserted before the second line
C34_Witness ==
  /\ Done("i") /\ hist.m.dest = 2 /\ hist.k = 2 /\ Len(hist.pre.seq) = 2


\* ------------------------------------------ line_replace, step by step
\* The lines are at most MaxLineLen characters x and a; the REs are named
\* by their text ( basic syntax ); a template is at most MaxToks of the
\* tokens RToks; snum is 0 ( the suffix g ) or 1 .. MaxSnum.
MaxLineLen == 3
MaxToks == 2
MaxSnum == 2
\* no behaviour of line_replace writes more than this; the guard keeps a
\* loop that would never stop finite
MaxOut == 16

RECURSIVE SeqsTo(_, _)
SeqsTo(S, n) ==
  IF n = 0 THEN {<< >>}
  ELSE SeqsTo(S, n - 1)
         \cup {Append(q, c) : q \in SeqsTo(S, n - 1), c \in S}

SubstLines == SeqsTo({"x", "a"}, MaxLineLen)
SubstREs == {"x", "x*", "^", "$", "\\(x\\)a"}
RToks == {<< "&" >>, << "\\", "1" >>, << "\\", "2" >>, << "\\", "\\" >>,
          << "\\", "c" >>, << "\\", "&" >>, << "c" >>}
Templates == SeqsTo(RToks, MaxToks)

RECURSIVE Flat(_)
Flat(toks) == IF Len(toks) = 0 THEN << >> ELSE Head(toks) \o Flat(Tail(toks))

\* the least offset at or after i where the word w occurs in t, -1 if none
RECURSIVE Find(_, _, _)
Find(t, w, i) ==
  IF i + Len(w) > Len(t) THEN 0 - 1
  ELSE IF SubSeq(t, i + 1, i + Len(w)) = w THEN i ELSE Find(t, w, i + 1)

\* the length of the run of x that t starts with
RECURSIVE Run(_)
Run(t) == IF Len(t) = 0 \/ Head(t) # "x" THEN 0 ELSE 1 + Run(Tail(t))

\* regexec( subst_regexp, t, se_max, rm, eflags ) for the REs of SubstREs:
\* << >> if there is no match, else rm[0] .. rm[re_nsub], the leftmost
\* longest match and its subgroups as offsets into t ( and for the RE a )
RegExec(re, t, notbol) ==
  CASE re \in {"x", "a"} ->
         (IF Find(t, << re >>, 0) < 0 THEN << >>
          ELSE << [so |-> Find(t, << re >>, 0),
                   eo |-> Find(t, << re >>, 0) + 1] >>)
    [] re = "x*" -> << [so |-> 0, eo |-> Run(t)] >>
    [] re = "^" -> (IF notbol THEN << >> ELSE << [so |-> 0, eo |-> 0] >>)
    [] re = "$" -> << [so |-> Len(t), eo |-> Len(t)] >>
    [] re = "\\(x\\)a" ->
         (IF Find(t, << "x", "a" >>, 0) < 0 THEN << >>
          ELSE << [so |-> Find(t, << "x", "a" >>, 0),
                   eo |-> Find(t, << "x", "a" >>, 0) + 2],
                  [so |-> Find(t, << "x", "a" >>, 0),
                   eo |-> Find(t, << "x", "a" >>, 0) + 1] >>)

\* the texts that the offsets rm select in t
Matched(t, rm) == [n \in 1 .. Len(rm) |-> SubSeq(t, rm[n].so + 1, rm[n].eo)]

\* line_replace up to the do-while: the first regexec, without REG_NOTBOL.
\* at: txt - ( eot - lp->len ), the offset of txt in the line;  out:
\* *txtbufp up to offset;  ret: the value returned ( Null: none yet ).
\* empties, hit, exp and grp are observations: the iterations whose match
\* was empty at txt, whether the last iteration replaced its match, the
\* text the template produced, and the texts of that match.
line_replace_enter(line, re, toks, snum) ==
  LET rm == RegExec(re, line, FALSE)
  IN  [line |-> line, re |-> re, toks |-> toks, rbuf |-> Flat(toks),
       snum |-> snum, at |-> 0, out |-> << >>, matchno |-> 0,
       infloop |-> FALSE, changed |-> FALSE, rm |-> rm,
       pc |-> IF rm = << >> THEN "done" ELSE "body",
       ret |-> IF rm = << >> THEN 0 ELSE Null, msg |-> "",
       empties |-> 0, iters |-> 0, hit |-> FALSE, exp |-> << >>,
       grp |-> << >>]

\* the test of the do-while: *txt && ( !changed || global ) && !regexec
line_replace_while(f) ==
  LET rest == SubSeq(f.line, f.at + 1, Len(f.line))
      rm == IF Len(rest) > 0 /\ (~f.changed \/ f.snum <= 0)
              THEN RegExec(f.re, rest, TRUE) ELSE << >>
  IN  [f EXCEPT !.rm = rm, !.pc = IF rm = << >> THEN "tail" ELSE "body"]

\* one iteration of the do-while without its infinite-loop check: the
\* scan goes on after an empty match
line_replace_unchecked(f) ==
  LET rest == SubSeq(f.line, f.at + 1, Len(f.line))
      global == f.snum <= 0
      matchno == IF global THEN f.matchno ELSE f.matchno + 1
      subst == global \/ f.snum = matchno
      exp == replace_matched_text(f.rbuf, Matched(rest, f.rm))
      g == [f EXCEPT
              !.matchno = matchno,
              !.changed = @ \/ subst,
              !.out = IF subst THEN @ \o SubSeq(rest, 1, f.rm[1].so) \o exp
                      ELSE @ \o SubSeq(rest, 1, f.rm[1].eo),
              !.at = @ + f.rm[1].eo,
              !.iters = @ + 1,
              !.empties = IF f.rm[1].eo = 0 THEN @ + 1 ELSE @,
              !.hit = subst,
              !.exp = IF subst THEN exp ELSE << >>,
              !.grp = IF subst THEN Matched(rest, f.rm) ELSE << >>]
  IN  line_replace_while(g)

\* one iteration of the do-while of line_replace
line_replace_body(f) ==
  LET rest == SubSeq(f.line, f.at + 1, Len(f.line))
      global == f.snum <= 0
      matchno == IF global THEN f.matchno ELSE f.matchno + 1
      subst == global \/ f.snum = matchno
      exp == replace_matched_text(f.rbuf, Matched(rest, f.rm))
      g == [f EXCEPT
              !.matchno = matchno,
              !.changed = @ \/ subst,
              !.out = IF subst THEN @ \o SubSeq(rest, 1, f.rm[1].so) \o exp
                      ELSE @ \o SubSeq(rest, 1, f.rm[1].eo),
              !.at = @ + f.rm[1].eo,
              !.iters = @ + 1,
              !.empties = IF f.rm[1].eo = 0 THEN @ + 1 ELSE @,
              !.hit = subst,
              !.exp = IF subst THEN exp ELSE << >>,
              !.grp = IF subst THEN Matched(rest, f.rm) ELSE << >>]
  IN  IF global /\ f.rm[1].eo = 0
        THEN IF ~f.infloop
               THEN line_replace_while([g EXCEPT !.infloop = TRUE])
             ELSE [g EXCEPT !.pc = "done", !.ret = 0 - 1,
                            !.msg = "Infinite substitution loop"]
      ELSE line_replace_while(g)

\* the tail copy and the return of line_replace
line_replace_tail(f) ==
  LET rest == SubSeq(f.line, f.at + 1, Len(f.line))
  IN  [f EXCEPT !.out = @ \o rest \o << "\n" >>, !.pc = "done",
                !.ret = IF f.changed THEN Len(f.out) + Len(rest) + 1 ELSE 0]

StartSubst ==
  \E line \in SubstLines, re \in SubstREs, toks \in Templates,
     snum \in 0 .. MaxSnum :
    LoadedRegex(Boot, FALSE, "subst", Hist0, Interactive,
                line_replace_enter(line, re, toks, snum))

SubstIdle ==
  UNCHANGED << EdVars, status, pc, sigs, ncmd, session, opts, err_status,
               retval, hist >>

SubstBody ==
  /\ session = "subst" /\ rx.pc = "body" /\ Len(rx.out) <= MaxOut
  /\ rx' = line_replace_body(rx)
  /\ SubstIdle

SubstTail ==
  /\ session = "subst" /\ rx.pc = "tail"
  /\ rx' = line_replace_tail(rx)
  /\ SubstIdle

NextSubst == SubstBody \/ SubstTail

\* line_replace runs on: no signal is followed here, and nothing else
\* keeps the loop from taking its next iteration
SpecSubst == StartSubst /\ [][NextSubst]_vars /\ WF_vars(NextSubst)

\* C35: the substitution of one line terminates, whatever the line, the
\* RE and the match count: each iteration of the loop moves the scan
\* position forward or has an empty match at the scan position; with the
\* suffix g the first empty match at the scan position is tolerated and
\* the second one of the same line ends line_replace with the error
\* "Infinite substitution loop"; no other error ends it.
C35_Progress ==
  /\ rx.iters > 0 => rx.at + rx.empties >= rx.iters
  /\ rx.snum <= 0 =>
       /\ rx.empties <= 2
       /\ rx.empties = 2 <=> rx.msg = "Infinite substitution loop"
  /\ rx.msg # "" => rx.snum <= 0 /\ rx.pc = "done" /\ rx.ret = 0 - 1
  /\ rx.pc = "done" /\ rx.msg = "" => rx.ret >= 0

C35_SubstitutionTerminates == [] C35_Progress /\ <> (rx.pc = "done")

C35_Witness ==
  /\ rx.pc = "done" /\ rx.msg = "Infinite substitution loop"
  /\ rx.snum <= 0 /\ rx.empties = 2 /\ rx.at > 0

\* the escape \n of a template names subgroup n of a match with the texts
\* grp ( the whole match first )
Subgroup(tok, grp) ==
  Len(tok) = 2 /\ tok[2] \in DOMAIN Digit /\ Digit[tok[2]] <= Len(grp) - 1

\* what one token of a template inserts: & the whole match, \n subgroup n,
\* any other escape the character after the backslash, a plain character
\* itself
Inserts(tok, grp) ==
  IF tok = << "&" >> THEN grp[1]
  ELSE IF Subgroup(tok, grp) THEN grp[Digit[tok[2]] + 1]
  ELSE IF Len(tok) = 2 THEN << tok[2] >>
  ELSE tok

\* the same, but an escape of a character other than a backslash or a
\* digit is inserted whole, backslash included
InsertsKept(tok, grp) ==
  IF Len(tok) = 2 /\ tok[2] # "\\" /\ tok[2] \notin DOMAIN Digit
    THEN tok ELSE Inserts(tok, grp)

\* C36 (as stated): in the text a replacement produces, & stands for the
\* whole match, \1 .. \9 for the subgroup, \\ for one backslash, and a
\* backslash followed by any other character is kept together with that
\* character ( templates whose digits all name a subgroup of the RE ).
C36_TemplateKeepsEscapes ==
  (/\ rx.pc # "none" /\ rx.hit
   /\ \A i \in 1 .. Len(rx.toks) :
        Len(rx.toks[i]) = 2 /\ rx.toks[i][2] \in DOMAIN Digit
          => Subgroup(rx.toks[i], rx.grp))
    => rx.exp = Flat([i \in 1 .. Len(rx.toks) |-> InsertsKept(rx.toks[i], rx.grp)])

\* C36 (amended): in the text a replacement produces, & stands for the
\* whole match, \n for subgroup n if the RE has one, and a backslash
\* followed by any other character ( a backslash, an &, a digit that names
\* no subgroup, anything else ) stands for that character alone.
C36_TemplateDropsBackslash ==
  rx.pc # "none" /\ rx.hit
    => rx.exp = Flat([i \in 1 .. Len(rx.toks) |-> Inserts(rx.toks[i], rx.grp)])

C36_Witness ==
  /\ rx.pc = "done" /\ rx.hit /\ rx.re = "\\(x\\)a"
  /\ rx.toks = << << "\\", "c" >>, << "\\", "1" >> >>
  /\ rx.exp = << "c", "x" >>


\* ------------------------------------------------- the statics of regex.c
\* store[3] of compile_regex: a slot is "none" ( never compiled ),
\* "compiled" with its RE, "failed" ( regcomp returned an error ) or
\* "freed" ( passed to regfree ).  last_regexp and subst_regexp are slots
\* or Null.  rbuf is the replacement, pflags / pmask / snum are the statics
\* of command_s ( the print suffixes as sets of letters ), line is the
\* text of the one line of the buffer.
PoolSize == 3
Slots == 0 .. PoolSize - 1

\* was, was_last, was_subst: the remembered substitution and the two
\* references when the command began;  chosen: the slot compile_regex
\* chose;  clash: the slot chosen was one of the two references;
\* compfail: regcomp failed;  rej: why the command was rejected;  used:
\* what search_and_replace worked with
RegexBoot ==
  [pc |-> "re", ctl |-> "run", mutex |-> 0,
   store |-> [n \in Slots |-> [st |-> "none", re |-> ""]],
   last_regexp |-> Null, subst_regexp |-> Null, exp |-> Null,
   rbuf |-> << >>, pflags |-> {}, pmask |-> {"p"}, snum |-> 1,
   line |-> << "x", "a", "x" >>,
   cmd |-> "none", res |-> "none", msg |-> "", rej |-> "",
   was |-> [re |-> "", rbuf |-> << >>, snum |-> 1, pflags |-> {}],
   was_last |-> Null, was_subst |-> Null, chosen |-> Null,
   clash |-> FALSE, compfail |-> FALSE,
   used |-> [re |-> "", rbuf |-> << >>, snum |-> 1]]

\* regcomp accepts the RE
ValidRE(pat) == pat # "\\("

\* the substitution a bare s would repeat
Remembered(r) ==
  [re |-> IF r.subst_regexp = Null THEN "" ELSE r.store[r.subst_regexp].re,
   rbuf |-> r.rbuf, snum |-> r.snum, pflags |-> r.pflags]

\* a command begins
RegexEnter(r, c) ==
  [r EXCEPT !.cmd = c, !.res = "ok", !.msg = "", !.rej = "", !.ctl = "run",
            !.exp = Null, !.was = Remembered(r),
            !.was_last = r.last_regexp, !.was_subst = r.subst_regexp,
            !.chosen = Null, !.clash = FALSE, !.compfail = FALSE,
            !.used = [re |-> "", rbuf |-> << >>, snum |-> 1]]

RegexErr(r, m, why) == [r EXCEPT !.res = "err", !.msg = m, !.rej = why]

\* sigint_handler with mutex == 0: longjmp( jmp_state, -1 )
RegexJmp(r) == [r EXCEPT !.ctl = "jmp", !.res = "jmp"]

\* the for loop of compile_regex: the first slot that is neither
\* last_regexp nor subst_regexp, the last slot if there is none
PickSlot(r) ==
  IF \E n \in Slots : n # r.last_regexp /\ n # r.subst_regexp
    THEN CHOOSE n \in Slots :
           /\ n # r.last_regexp /\ n # r.subst_regexp
           /\ \A m \in Slots :
                m < n => m = r.last_regexp \/ m = r.subst_regexp
  ELSE PoolSize - 1

\* compile_regex.  sig is the point where a SIGINT arrives while mutex is
\* 0: 0 before regcomp, 1 after it, 2 between regfree( last_regexp ) and
\* the assignment of last_regexp; NoSig: none.  r.exp is the value
\* returned.
compile_regex(r, pat, sig) ==
  LET n == PickSlot(r)
      r0 == [r EXCEPT !.chosen = n,
                      !.clash = n = r.last_regexp \/ n = r.subst_regexp]
      r1 == [r0 EXCEPT !.store[n] = [st |-> "compiled", re |-> pat]]
      r2 == IF r1.last_regexp # Null /\ r1.last_regexp # r1.subst_regexp
              THEN [r1 EXCEPT !.store[r1.last_regexp].st = "freed"]
            ELSE r1
  IN  IF sig = 0 /\ r.mutex = 0 THEN RegexJmp(r0)
      ELSE IF ~ValidRE(pat)
        THEN [RegexErr(r0, "regerror", "regcomp") EXCEPT
                !.store[n] = [st |-> "failed", re |-> ""],
                !.compfail = TRUE, !.exp = Null]
      ELSE IF sig = 1 /\ r.mutex = 0 THEN RegexJmp(r1)
      ELSE IF sig = 2 /\ r.mutex = 0 THEN RegexJmp(r2)
      ELSE [r2 EXCEPT !.last_regexp = n, !.exp = n]

\* get_compiled_regex: the RE of the command line, or the last one if it
\* is empty
get_compiled_regex(r, pat, sig) ==
  IF pat = ""
    THEN IF r.last_regexp = Null
           THEN RegexErr(r, "No previous pattern", "pattern")
         ELSE [r EXCEPT !.exp = r.last_regexp]
  ELSE compile_regex(r, pat, sig)

\* the address /re/: next_matching_node_addr.  regexec on a matcher that
\* was freed is undefined.
next_matching_node_addr(r, pat, sig) ==
  LET a == get_compiled_regex(r, pat, sig)
  IN  IF a.ctl # "run" \/ a.res = "err" THEN a
      ELSE IF a.store[a.exp].st # "compiled" THEN [a EXCEPT !.ctl = "ub"]
      ELSE IF RegExec(a.store[a.exp].re, a.line, FALSE) = << >>
        THEN RegexErr(a, "No match", "nomatch")
      ELSE a

\* line_replace from its first regexec to its return
RECURSIVE LineReplaceRun(_)
LineReplaceRun(f) ==
  IF f.pc = "body" THEN LineReplaceRun(line_replace_body(f))
  ELSE IF f.pc = "tail" THEN line_replace_tail(f)
  ELSE f

\* search_and_replace on the one line of the buffer, with subst_regexp,
\* rbuf and the snum of command_s
RegexReplace(r) ==
  IF r.store[r.subst_regexp].st # "compiled" THEN [r EXCEPT !.ctl = "ub"]
  ELSE LET re == r.store[r.subst_regexp].re
           f == LineReplaceRun(line_replace_enter(r.line, re, << r.rbuf >>,
                                                  r.snum))
           a == [r EXCEPT !.used = [re |-> re, rbuf |-> r.rbuf,
                                    snum |-> r.snum]]
       IN  IF f.ret < 0 THEN RegexErr(a, f.msg, "loop")
           ELSE IF f.ret = 0 THEN RegexErr(a, "No match", "nomatch")
           ELSE [a EXCEPT !.line = SubSeq(f.out, 1, Len(f.out) - 1)]

\* get_command_s_suffix from character k of the suffix suf on; the
\* newline follows the last character.  a holds *pflagsp, *snump,
\* *ignore_casep and rep; they are the statics of command_s, so what the
\* loop has set stays set when it fails.
RECURSIVE get_command_s_suffix(_, _, _)
get_command_s_suffix(suf, k, a) ==
  IF k > Len(suf) THEN [a EXCEPT !.ok = TRUE]
  ELSE IF suf[k] \in DOMAIN Digit
    THEN IF a.rep THEN [a EXCEPT !.ok = FALSE]
         ELSE get_command_s_suffix(suf, k + 1,
                [a EXCEPT !.rep = TRUE, !.snum = Digit[suf[k]]])
  ELSE IF suf[k] = "g"
    THEN IF a.rep THEN [a EXCEPT !.ok = FALSE]
         ELSE get_command_s_suffix(suf, k + 1,
                [a EXCEPT !.rep = TRUE, !.snum = 0])
  ELSE IF suf[k] \in {"i", "I"}
    THEN IF a.icase THEN [a EXCEPT !.ok = FALSE]
         ELSE get_command_s_suffix(suf, k + 1, [a EXCEPT !.icase = TRUE])
  ELSE IF suf[k] \in {"l", "n", "p"}
    THEN IF suf[k] \in a.pflags THEN [a EXCEPT !.ok = FALSE]
         ELSE get_command_s_suffix(suf, k + 1,
                [a EXCEPT !.pflags = @ \cup {suf[k]}])
  ELSE [a EXCEPT !.ok = FALSE]

\* set_subst_regex
set_subst_regex(r, pat, icase) ==
  IF pat = "" /\ icase THEN RegexErr(r, "Suffix 'I' not allowed on empty regexp", "suffix")
  ELSE LET a == IF pat # ""
                  THEN compile_regex([r EXCEPT !.mutex = @ + 1], pat, NoSig)
                ELSE [r EXCEPT !.mutex = @ + 1, !.exp = r.last_regexp]
           b == IF a.exp # Null /\ a.exp # a.subst_regexp
                  THEN [a EXCEPT
                          !.store = IF a.subst_regexp = Null THEN @
                                    ELSE [@ EXCEPT ![a.subst_regexp].st = "freed"],
                          !.subst_regexp = a.exp]
                ELSE a
       IN  [b EXCEPT !.mutex = @ - 1]

\* command_s for s/re/replacement/flags: get_pattern_for_s,
\* extract_replacement ( the buffers are swapped ), pflags = 0, snum = 1,
\* get_command_s_suffix, pmask, set_subst_regex, search_and_replace
SubstNew(r, pat, repl, suf) ==
  IF pat = "" /\ r.last_regexp = Null
    THEN RegexErr(r, "No previous pattern", "pattern")
  ELSE LET sfx == get_command_s_suffix(suf, 1,
                    [pflags |-> {}, snum |-> 1, icase |-> FALSE,
                     rep |-> FALSE, ok |-> TRUE])
           a == [r EXCEPT !.rbuf = repl, !.pflags = sfx.pflags,
                          !.snum = sfx.snum]
           pm == sfx.pflags \cap {"l", "n", "p"}
       IN  IF ~sfx.ok THEN RegexErr(a, "Invalid command suffix", "suffix")
           ELSE LET c == set_subst_regex(
                           [a EXCEPT !.pmask = IF pm = {} THEN {"p"} ELSE pm],
                           pat, sfx.icase)
                IN  IF c.res = "err" THEN c ELSE RegexReplace(c)

\* the do-while of command_s for the repeat forms s, sg, sp, sr, sN from
\* character k on; a holds sflags ( as a set ) and the static snum
RECURSIVE SflagsLoop(_, _, _)
SflagsLoop(suf, k, a) ==
  IF k > Len(suf) THEN [a EXCEPT !.ok = TRUE]
  ELSE IF suf[k] \in DOMAIN Digit
    THEN IF "g" \in a.sflags THEN [a EXCEPT !.ok = FALSE]
         ELSE SflagsLoop(suf, k + 1,
                [a EXCEPT !.sflags = @ \cup {"g"}, !.snum = Digit[suf[k]]])
  ELSE IF suf[k] = "g"
    THEN IF "g" \in a.sflags THEN [a EXCEPT !.ok = FALSE]
         ELSE SflagsLoop(suf, k + 1,
                [a EXCEPT !.sflags = @ \cup {"g"},
                          !.snum = IF a.snum = 0 THEN 1 ELSE 0])
  ELSE IF suf[k] \in {"p", "r"}
    THEN IF suf[k] \in a.sflags THEN [a EXCEPT !.ok = FALSE]
         ELSE SflagsLoop(suf, k + 1, [a EXCEPT !.sflags = @ \cup {suf[k]}])
  ELSE [a EXCEPT !.ok = FALSE]

\* replace_subst_re_by_search_re
replace_subst_re_by_search_re(r) ==
  IF r.last_regexp = Null THEN RegexErr(r, "No previous pattern", "pattern")
  ELSE IF r.last_regexp # r.subst_regexp
    THEN [r EXCEPT
            !.store = IF r.subst_regexp = Null THEN @
                      ELSE [@ EXCEPT ![r.subst_regexp].st = "freed"],
            !.subst_regexp = r.last_regexp]
  ELSE r

\* command_s for a repeat form
SubstRepeat(r, suf) ==
  LET sf == SflagsLoop(suf, 1, [sflags |-> {}, snum |-> r.snum, ok |-> TRUE])
      a == [r EXCEPT !.snum = sf.snum]
  IN  IF ~sf.ok THEN RegexErr(a, "Invalid command suffix", "suffix")
      ELSE IF a.subst_regexp = Null
        THEN RegexErr(a, "No previous substitution", "nosubst")
      ELSE LET b == IF "r" \in sf.sflags
                      THEN replace_subst_re_by_search_re(a) ELSE a
               c == IF "p" \in sf.sflags
                      THEN [b EXCEPT !.pflags = (@ \ b.pmask)
                                                  \cup (b.pmask \ @)]
                    ELSE b
           IN  IF b.res = "err" THEN b ELSE RegexReplace(c)

\* the command lines of the sessions on regex.c
RegexPats == {"x", "a", "", "\\("}
RegexRepls == {<< "y" >>, << "a" >>}
RegexSuffixes == {<< >>, << "g" >>, << "p" >>, << "g", "g" >>}
RepeatSuffixes == {<< >>, << "g" >>, << "p" >>, << "r" >>, << "2" >>,
                   << "2", "g" >>}
SigPoints == {NoSig, 0, 1, 2}

StartRegex == LoadedRegex(Boot, TRUE, "regex", Hist0, Interactive, RegexBoot)

\* main_loop after a command on the statics of regex.c
RegexStep(r) ==
  /\ rx' = [r EXCEPT !.pc = IF r.ctl = "ub" THEN "ub" ELSE "re"]
  /\ ncmd' = ncmd + 1
  /\ UNCHANGED << EdVars, status, pc, sigs, session, opts, err_status,
                  retval, hist >>

RegexReady == session = "regex" /\ rx.pc = "re" /\ ncmd < Budget

RegexSearch ==
  /\ RegexReady
  /\ \E pat \in RegexPats, sig \in SigPoints :
       RegexStep(next_matching_node_addr(RegexEnter(rx, "/"), pat, sig))

RegexSubst ==
  /\ RegexReady
  /\ \E pat \in RegexPats, repl \in RegexRepls, suf \in RegexSuffixes :
       RegexStep(SubstNew(RegexEnter(rx, "s/"), pat, repl, suf))

RegexRepeat ==
  /\ RegexReady
  /\ \E suf \in RepeatSuffixes :
       RegexStep(SubstRepeat(RegexEnter(rx, "s"), suf))

NextRegex == RegexSearch \/ RegexSubst \/ RegexRepeat

SpecRegex == StartRegex /\ [][NextRegex]_vars

\* the reference is unset or refers to a slot that holds a compiled
\* matcher that has not been freed
RefValid(ref) == ref = Null \/ rx.store[ref].st = "compiled"

\* C37: in every reachable state last_regexp and subst_regexp are each
\* unset or refer to a slot holding a compiled, not yet freed matcher;
\* the slot chosen for a compilation is never one of the two; a failed
\* compilation leaves both references as they were, and usable.
C37_CachedRegexesValid ==
  rx.pc = "re" =>
    /\ RefValid(rx.last_regexp) /\ RefValid(rx.subst_regexp)
    /\ ~rx.clash
    /\ rx.compfail => /\ rx.last_regexp = rx.was_last
                      /\ rx.subst_regexp = rx.was_subst

\* C38: when s/re/replacement/flags is rejected for its suffix or because
\* the RE does not compile, the remembered substitution ( RE,
\* replacement, match count, print flags ) is what it was before.
C38_RejectedSubstRemembersNothing ==
  rx.pc = "re" /\ rx.cmd = "s/" /\ rx.rej \in {"suffix", "regcomp"}
    => Remembered(rx) = rx.was


\* ---------------------------------------------------- sessions on addresses
\* A file of at most MaxLines lines is read; lines are marked, deleted,
\* inserted and moved; then the command = is given an address of at most
\* MaxAddrToks tokens, separated by blanks, and what it did is kept in rx:
\* the address, whether it was accepted, the message, the number printed,
\* the wraps of the sum, last_addr and the place in the buffer of the line
\* marked a ( 0: none ).
AddrToks == {"3", "+3", "-3", "2147483647", "+2147483647", "4294967297", "'a"}

AddrExprs == SeqsTo(AddrToks, MaxAddrToks) \ {<< >>}

AddrIdle == [pc |-> "addr"]

StartAddr ==
  \E n \in 0 .. MaxLines :
    \E r \in {read_file(Main, [io |-> "ok", bytes |-> Bytes(LineFile(n))], 0)} :
      LoadedRegex(r, FALSE, "addr", Hist0, Interactive, AddrIdle)

AddrReady == pc = "loop" /\ session = "addr" /\ rx.pc = "addr"

AddrMark ==
  /\ AddrReady
  /\ \E adr \in {<< >>, << "1" >>} : Do(Cmd("k", adr), case_k)

AddrDelete ==
  /\ AddrReady
  /\ \E adr \in {<< >>, << "1" >>} : Do(Cmd("d", adr), case_d)

AddrInsert ==
  /\ AddrReady
  /\ Do([Cmd("i", << "1" >>) EXCEPT !.inp = << << "a" >> >>], case_i)

AddrMove ==
  /\ AddrReady
  /\ \E dst \in {<< "0" >>, << "$" >>} :
       Do([Cmd("m", << >>) EXCEPT !.dst = dst], case_m)

\* the place of a node in the buffer, 0 if it is not in it
PlaceOf(node) ==
  IF \E i \in 1 .. Len(BufSeq(q_forw)) : BufSeq(q_forw)[i] = node
    THEN CHOOSE i \in 1 .. Len(BufSeq(q_forw)) : BufSeq(q_forw)[i] = node
  ELSE 0

AddrEquals ==
  /\ AddrReady /\ ncmd < Budget
  /\ \E adr \in AddrExprs, w \in BOOLEAN :
       \E r \in {Exec([St EXCEPT !.wrap = w], Cmd("=", adr), status, FALSE,
                      case_eq)} :
         /\ Commit(r)
         /\ status' = IF r.ctl = "run" THEN r.st ELSE status
         /\ pc' = IF r.ctl = "ub" THEN "ub" ELSE "loop"
         /\ rx' = [pc |-> "printed", adr |-> adr, res |-> Res(r),
                   msg |-> r.errmsg, val |-> r.h_val, wraps |-> r.h_wraps,
                   huge |-> r.h_huge, last |-> last_addr_,
                   empty |-> last_addr_ = 0,
                   marked |-> mark["a"] # Null,
                   place |-> IF mark["a"] = Null THEN 0 ELSE PlaceOf(mark["a"])]
  /\ ncmd' = ncmd + 1
  /\ UNCHANGED << sigs, session, opts, err_status, retval, hist >>

NextAddr ==
  AddrMark \/ AddrDelete \/ AddrInsert \/ AddrMove \/ AddrEquals

SpecAddr == StartAddr /\ [][NextAddr]_vars

\* the address given to = is a sum of numbers only
IsSum(adr) == \A i \in 1 .. Len(adr) : adr[i] # "'a"

\* C39: an address is accepted only if its arithmetic value lies in
\* 0 .. last; a sum whose true value is outside, also one that exceeds
\* the range of int, is rejected with "Invalid address" and does not wrap
\* around to a valid address.
C39_AddressValueInRange ==
  rx.pc = "printed" /\ IsSum(rx.adr) /\ rx.res # "ub" =>
    /\ rx.res = "ok" => rx.wraps = 0 /\ rx.val \in 0 .. rx.last
    /\ (rx.wraps # 0 \/ rx.huge) => rx.res = "err" /\ rx.msg = "Invalid address"

\* C40: the address of a mark that was never set, or whose line is not in
\* the buffer, is rejected with "Invalid address", whatever the size of
\* the buffer, the empty one included; the address of a mark whose line
\* is in the buffer is the place that line has now.
C40_MarkAddress ==
  rx.pc = "printed" /\ rx.adr = << "'a" >> =>
    IF rx.place = 0 THEN rx.res = "err" /\ rx.msg = "Invalid address"
    ELSE rx.res = "ok" /\ rx.val = rx.place

=============================================================================
